---------------------------- MODULE Spec2Model ----------------------------
(***************************************************************************)
(* Model of the tool-call-as-code runtime:                                 *)
(*   - the replay sandbox  (src/src/run-code-server/run-tool-code.ts)      *)
(*   - the orchestrator and history transcoder (server.ts and              *)
(*     type-conversion helpers, role:"code" / role:"code_result" shape)    *)
(*                                                                         *)
(* A user program (the `code` string) is represented by the sequence of    *)
(* statements of its `main`: awaited fan-outs of tool calls (optionally    *)
(* wrapped in a try/catch that swallows the rejection) and throws; main    *)
(* returns the list of results it was delivered.                           *)
(***************************************************************************)
EXTENDS Integers, Sequences, FiniteSets, TLC

(***************************************************************************)
(* Bounds of the model                                                     *)
(***************************************************************************)
MaxStages == 2
MaxInputLen == 2
MaxCompletions == 2
MaxHistory == 6

(***************************************************************************)
(* Plain data                                                              *)
(***************************************************************************)
Undefined == [type |-> "undefined"]

Last(s) == s[Len(s)]

SeqsUpTo(S, n) == UNION {[1..k -> S] : k \in 0..n}

\* identifiers: enough of them for every entry one block can hold
UUIDs == 1..(MaxInputLen + 2 * MaxStages)

Results == {"r1", "r2"}

ErrorOops == [type |-> "Error", message |-> "oops"]

\* a value with the shape of the engine's NewToolCallInternal, built by the
\* user program or supplied by the caller as the error of a rejected entry
ForgedNewToolCall == [type |-> "newToolCall", name |-> "webSearch", args |-> [query |-> "forged"]]

(***************************************************************************)
(* types.ts : ToolState                                                    *)
(***************************************************************************)
PendingTool(id, name, arguments) ==
  [type |-> "pendingTool", id |-> id, function |-> [name |-> name, arguments |-> arguments]]

\* an answered call is recorded as rejected with the answer
AnswerAsRejected(id, result) == [type |-> "rejectedTool", id |-> id, error |-> result]

ResolvedTool(id, result) == [type |-> "resolvedTool", id |-> id, result |-> result]

RejectedTool(id, error) == [type |-> "rejectedTool", id |-> id, error |-> error]

IdsOf(toolState) == {toolState[k].id : k \in 1..Len(toolState)}

\* a tool-state with the ids of its pending entries erased
StripPendingIds(toolState) ==
  [k \in 1..Len(toolState) |->
     IF toolState[k].type = "pendingTool"
       THEN [toolState[k] EXCEPT !.id = 0]
       ELSE toolState[k]]

(***************************************************************************)
(* User programs                                                           *)
(***************************************************************************)
Call(name, arg) == [name |-> name, arg |-> arg]

AwaitAll(calls, caught) == [op |-> "await", calls |-> calls, caught |-> caught, value |-> Undefined]

Throw(value) == [op |-> "throw", calls |-> <<>>, caught |-> FALSE, value |-> value]

\* `await new Promise(() => {})`: main never settles
Hang == [op |-> "hang", calls |-> <<>>, caught |-> FALSE, value |-> Undefined]

\* a program text that does not compile
Malformed == <<[op |-> "syntax_error", calls |-> <<>>, caught |-> FALSE, value |-> Undefined]>>

\* a program text whose top level throws before main is called
ThrowsAtTopLevel == <<[op |-> "top_level_throw", calls |-> <<>>, caught |-> FALSE, value |-> ForgedNewToolCall]>>

\* `await Promise.all(results.filter(r => r !== dropped).map(r => name({ query: r })))`
\* over the results main has been delivered so far
AwaitEach(name, dropped) ==
  [op |-> "await_each", calls |-> <<Call(name, "$item")>>, caught |-> FALSE,
   value |-> [type |-> "filter", drop |-> dropped]]

\* two searches in parallel, then one summary per retained result
PostProcessing ==
  <<AwaitAll(<<Call("webSearch", "sport news"), Call("webSearch", "intl news")>>, FALSE),
    AwaitEach("summarize", "r2")>>

StageSet ==
  { AwaitAll(<<Call("webSearch", "sport news")>>, FALSE),
    AwaitAll(<<Call("summarize", "$prev")>>, FALSE),
    AwaitAll(<<Call("webSearch", "sport news"), Call("webSearch", "intl news")>>, FALSE),
    AwaitAll(<<Call("webSearch", "sport news")>>, TRUE),
    Throw(ErrorOops),
    Throw(ForgedNewToolCall),
    Hang }

\* the programs the model emits in the orchestrator's runs
ServePrograms ==
  { <<AwaitAll(<<Call("webSearch", "sport news")>>, FALSE)>>,
    <<AwaitAll(<<Call("webSearch", "sport news"), Call("webSearch", "intl news")>>, FALSE)>>,
    <<AwaitAll(<<Call("webSearch", "sport news")>>, FALSE),
      AwaitAll(<<Call("summarize", "$prev")>>, FALSE)>>,
    <<AwaitAll(<<Call("webSearch", "sport news")>>, TRUE)>>,
    <<Throw(ErrorOops)>>,
    <<Throw(ForgedNewToolCall)>>,
    <<AwaitAll(<<Call("webSearch", "sport news")>>, FALSE), Throw(ForgedNewToolCall)>>,
    <<Hang>>,
    Malformed,
    ThrowsAtTopLevel }

CodeIds == {"call_1", "call_2"}

Programs == SeqsUpTo(StageSet, MaxStages) \cup {Malformed, ThrowsAtTopLevel, PostProcessing}

\* the argument object a call expression evaluates to, given the results
\* main has been delivered so far
ArgValue(arg, delivered) ==
  IF arg = "$prev"
    THEN [query |-> IF delivered = <<>> THEN "undefined" ELSE Last(delivered)]
    ELSE [query |-> arg]

\* a fan-out that maps over every delivered result, filtered or not
CallsWithoutFilter(stage, delivered) ==
  IF stage.op = "await_each"
    THEN [n \in 1..Len(delivered) |-> Call(stage.calls[1].name, delivered[n])]
    ELSE stage.calls

\* the call expressions of a fan-out, in the order main evaluates them:
\* those written in the program text, or one per retained result
CallsOf(stage, delivered) ==
  IF stage.op = "await_each"
    THEN LET Retained(r) == r # stage.value.drop
             retained == SelectSeq(delivered, Retained)
         IN [n \in 1..Len(retained) |-> Call(stage.calls[1].name, retained[n])]
    ELSE stage.calls

(***************************************************************************)
(* Input tool-states handed to runToolCode                                 *)
(***************************************************************************)
EntryShapes ==
  { ResolvedTool(0, r) : r \in Results }
    \cup { RejectedTool(0, ErrorOops), RejectedTool(0, ForgedNewToolCall) }
    \cup { PendingTool(0, "webSearch", [query |-> "sport news"]) }

\* the caller's ids are distinct within a tool-state and unrelated to positions
InputToolStates ==
  UNION { { [k \in 1..n |-> [shape[k] EXCEPT !.id = n + 1 - k]] :
              shape \in [1..n -> EntryShapes] } : n \in 0..MaxInputLen }

(***************************************************************************)
(* JSON text.  A text that encodes the value v is [json |-> v]; any other  *)
(* text is [raw |-> ...] and does not parse.                               *)
(***************************************************************************)
\* the value itself is put where its JSON text belongs
Unserialized(value) == value

JSONStringify(value) == [json |-> value]

IsJSONText(text) == "json" \in DOMAIN text

JSONParse(text) == text.json

(***************************************************************************)
(* Client-visible and model-visible messages (types.ts)                    *)
(***************************************************************************)
UserMessage(content) == [role |-> "user", content |-> content]

SystemMessage(content) == [role |-> "system", content |-> content]

CodeMessage(id, c) == [role |-> "code", id |-> id, code |-> c]

CodeResultMessage(id, res) == [role |-> "code_result", id |-> id, result |-> res]

ToolMessage(toolCallId, content) == [role |-> "tool", toolCallId |-> toolCallId, content |-> content]

\* message.toolCalls?.length
HasToolCalls(message) ==
  /\ "toolCalls" \in DOMAIN message
  /\ Len(message.toolCalls) > 0

\* the tool calls of a message, `message.toolCalls ?? []`
ToolCallsOf(message) == IF "toolCalls" \in DOMAIN message THEN message.toolCalls ELSE <<>>

\* a pattern that every tool call matches
AnyToolCallMatches(toolCall) == TRUE

\* a pattern that no tool call matches
NoToolCallMatches(toolCall) == FALSE

\* the pattern RunTypeScriptToolCall of types.ts
IsRunTypeScriptToolCall(toolCall) ==
  /\ "id" \in DOMAIN toolCall
  /\ "function" \in DOMAIN toolCall
  /\ toolCall.function.name = "run_typescript"
  /\ "arguments" \in DOMAIN toolCall.function

\* remeda findLastIndex, 1-based: 0 when no element satisfies the predicate;
\* `satisfies` is the predicate applied to each element of the array
findLastIndex(satisfies) ==
  LET hits == {k \in 1..Len(satisfies) : satisfies[k]}
  IN IF hits = {} THEN 0 ELSE CHOOSE k \in hits : \A j \in hits : j <= k

\* the whole array instead of the slice
WholeArray(messages, from) == messages

\* messages.slice(from) with `from` 0-based
SliceFrom(messages, from) == SubSeq(messages, from + 1, Len(messages))

RECURSIVE FlatToolCalls(_)
\* historySlice.flatMap(m => m.role === "assistant" ? (m.toolCalls ?? []) : [])
FlatToolCalls(messages) ==
  IF messages = <<>>
    THEN <<>>
    ELSE (IF Head(messages).role = "assistant" THEN ToolCallsOf(Head(messages)) ELSE <<>>)
           \o FlatToolCalls(Tail(messages))

(***************************************************************************)
(* History transcoder                                                      *)
(***************************************************************************)
\* Turns the slice of an open code block into tool states; [ok |-> FALSE]
\* when a tool message's content is not JSON text (the function throws).
\* historySlice and toolCalls are computed once, as the constants they are.
messagesToToolState(history) ==
  LET lastAssistantMessageWithoutToolCallsIndex ==
        findLastIndex([i \in 1..Len(history) |-> history[i].role = "assistant" /\ ~HasToolCalls(history[i])])
  IN CHOOSE toolStates \in UNION {
       { LET \* indexBy: of several tool messages with one id the last one is kept
             toolMessageIndex(id) ==
               findLastIndex([i \in 1..Len(historySlice) |->
                                historySlice[i].role = "tool" /\ historySlice[i].toolCallId = id])
             bad == \E k \in 1..Len(toolCalls) :
                      /\ toolMessageIndex(toolCalls[k].id) # 0
                      /\ ~IsJSONText(historySlice[toolMessageIndex(toolCalls[k].id)].content)
         IN IF bad
              THEN [ok |-> FALSE, toolState |-> <<>>]
              ELSE [ok |-> TRUE,
                    toolState |->
                      [k \in 1..Len(toolCalls) |->
                         IF toolMessageIndex(toolCalls[k].id) = 0
                           THEN PendingTool(toolCalls[k].id, toolCalls[k].function.name,
                                            toolCalls[k].function.arguments)
                           ELSE ResolvedTool(toolCalls[k].id,
                                  JSONParse(historySlice[toolMessageIndex(toolCalls[k].id)].content))]]
         : toolCalls \in {FlatToolCalls(historySlice)} }
       : historySlice \in { IF lastAssistantMessageWithoutToolCallsIndex = 0
                              THEN history
                              ELSE SliceFrom(history, lastAssistantMessageWithoutToolCallsIndex) } } : TRUE

\* the message of the tool dialogue is passed on to the model
Forward(acc, message) == [acc EXCEPT !.messages = Append(@, message)]

\* code context, assistant or tool message: `({ ctx, messages })`, nothing is added
Absorb(acc, message) == acc

\* any code_result message closes the open block
AnyCodeResultCloses(ctx, message) == TRUE

\* the pattern `{ role: "code_result", id: ctx.id }`
ClosesBlock(ctx, message) == message.id = ctx.id

\* one step of the reduce of clientToServerMessages
clientToServerStep(acc, message) ==
  IF ~acc.ok
    THEN acc
    ELSE IF acc.ctx.type = "normal"
      THEN CASE message.role = "code" ->
                  [ok |-> TRUE,
                   ctx |-> [type |-> "code", id |-> message.id],
                   messages |-> Append(acc.messages,
                     [role |-> "assistant", content |-> "",
                      toolCalls |-> <<[id |-> message.id,
                                       function |-> [name |-> "run_typescript",
                                                     arguments |-> JSONStringify([code |-> message.code])]]>>])]
             [] message.role \in {"system", "user"} ->
                  [acc EXCEPT !.messages = Append(@, message)]
             [] message.role = "assistant" ->
                  IF \A k \in 1..Len(ToolCallsOf(message)) : IsRunTypeScriptToolCall(ToolCallsOf(message)[k])
                    THEN [acc EXCEPT !.messages = Append(@, message)]
                    ELSE [acc EXCEPT !.ok = FALSE]
             [] message.role \in {"code_result", "tool"} ->
                  [acc EXCEPT !.ok = FALSE]
      ELSE CASE message.role = "code_result" ->
                  IF ClosesBlock(acc.ctx, message)
                    THEN [ok |-> TRUE,
                          ctx |-> [type |-> "normal", id |-> 0],
                          messages |-> Append(acc.messages,
                            ToolMessage(acc.ctx.id, JSONStringify(message.result)))]
                    ELSE [acc EXCEPT !.ok = FALSE]
             [] message.role \in {"assistant", "tool"} -> Absorb(acc, message)
             [] message.role \in {"code", "system", "user"} ->
                  [acc EXCEPT !.ok = FALSE]

RECURSIVE clientToServerReduce(_, _)
clientToServerReduce(acc, messages) ==
  IF messages = <<>>
    THEN acc
    ELSE \* the accumulator of each step is a value, computed once
         CHOOSE reduced \in { clientToServerReduce(next, Tail(messages)) :
                                next \in {clientToServerStep(acc, Head(messages))} } : TRUE

\* [ok |-> FALSE] when the reduce throws on a protocol violation
clientToServerMessages(messages) ==
  clientToServerReduce([ok |-> TRUE, ctx |-> [type |-> "normal", id |-> 0], messages |-> <<>>],
                       messages)

\* mode "code", "llm" or "error"; mode "throw" when a helper throws
parseClientMessages(messages) ==
  LET lastCodeIndex == findLastIndex([i \in 1..Len(messages) |-> messages[i].role = "code"])
      lastCodeResultIndex == findLastIndex([i \in 1..Len(messages) |-> messages[i].role = "code_result"])
      llm == LET projected == clientToServerMessages(messages)
             IN IF projected.ok
                  THEN [mode |-> "llm", messages |-> projected.messages]
                  ELSE [mode |-> "throw"]
  IN IF lastCodeIndex = 0 /\ lastCodeResultIndex = 0
       THEN llm
       ELSE IF lastCodeIndex = 0
         THEN [mode |-> "error", errorType |-> "result_with_no_code_block"]
         ELSE IF lastCodeIndex > lastCodeResultIndex
           THEN LET codeMessage == messages[lastCodeIndex]
                IN CHOOSE parsed_ \in {
                     IF ~(\A k \in 1..Len(currentCodeEvaluationSlice) :
                            currentCodeEvaluationSlice[k].role \in {"assistant", "tool"})
                       THEN [mode |-> "error",
                             errorType |-> "code_slice_containing_unexpected_messages"]
                       ELSE CHOOSE code_ \in {
                              IF states.ok
                                THEN [mode |-> "code",
                                      code |-> codeMessage.code,
                                      id |-> codeMessage.id,
                                      partialEvaluation |->
                                        [code |-> codeMessage.code, toolState |-> states.toolState]]
                                ELSE [mode |-> "throw"]
                              : states \in {messagesToToolState(currentCodeEvaluationSlice)} } : TRUE
                     : currentCodeEvaluationSlice \in {SliceFrom(messages, lastCodeIndex)} } : TRUE
           ELSE llm

\* the code is read from a key the decoded arguments do not have: no code
CodeFromMissingKey(message) ==
  IF HasToolCalls(message)
    THEN <<CodeMessage(message.toolCalls[1].id, <<>>)>>
    ELSE <<[role |-> "assistant", content |-> message.content]>>

\* the reply is passed on to the client as it is
AssistantMessageAsIs(message) == <<message>>

\* the client-visible messages for an assistant reply of the model
serverAssistantMessageToClientMessages(message) ==
  IF HasToolCalls(message)
    THEN <<CodeMessage(message.toolCalls[1].id,
                       JSONParse(message.toolCalls[1].function.arguments).code)>>
    ELSE <<[role |-> "assistant", content |-> message.content]>>

\* every entry of the tool-state becomes a tool call
EveryEntryAsToolCall(pe) ==
  [role |-> "assistant",
   content |-> "",
   toolCalls |->
     [n \in 1..Len(pe.toolState) |->
        [type |-> "function",
         id |-> pe.toolState[n].id,
         index |-> n - 1,
         function |-> IF pe.toolState[n].type = "pendingTool"
                        THEN pe.toolState[n].function
                        ELSE [name |-> "", arguments |-> [query |-> ""]]]]]

\* the assistant message that surfaces the pending entries of a tool-state
partialEvaluationToAssistantMessage(pe) ==
  [role |-> "assistant",
   content |-> "",
   toolCalls |->
     LET pendingAt == {k \in 1..Len(pe.toolState) : pe.toolState[k].type = "pendingTool"}
         nth(n) == CHOOSE k \in pendingAt : Cardinality({j \in pendingAt : j < k}) = n - 1
     IN [n \in 1..Cardinality(pendingAt) |->
           [type |-> "function",
            id |-> pe.toolState[nth(n)].id,
            index |-> nth(n) - 1,
            function |-> pe.toolState[nth(n)].function]]]

(***************************************************************************)
(* State                                                                   *)
(***************************************************************************)
VARIABLES
  evalPc,             \* position of runToolCode: idle, running, settled, done
  partialEvaluation,  \* the argument of runToolCode: [code, toolState]
  index,              \* createToolCallImplementation: the replay cursor
  toolStatesOutput,   \* runToolCode: the output tool-state built by the pass
  collectedOutput,    \* runToolCode: what $collectOutput received, or Undefined
  mainPc,             \* main: the statement being executed (1-based)
  callPos,            \* main: next call expression of the current fan-out
  stageRejection,     \* main: first rejection among the promises of the fan-out
  stageResults,       \* main: values of the resolved promises of the fan-out
  delivered,          \* main: the results bound to its local variables so far
  entered,            \* history: the tool functions entered in this pass, in order
  result,             \* the RunToolCodeResult returned, or Undefined
  runNo,              \* 1 for a first evaluation of an input, 2 for its repetition,
                      \* 3 for an evaluation against the answered tool-state of run 1
  firstResult,        \* the result of run 1 while run 2 is under way
  isolates,           \* runToolCode: per isolate held or just disposed, the number of dispose() calls
  messages,           \* CodeModeAgent.run: the client's history
  clientPc,           \* CodeModeAgent.run: ready, waiting, finished, failed
  serverPc,           \* server: idle, parse, evaluating, llm, returned, raised
  inputMessages,      \* server: its first argument
  outputMessages,     \* server: its third argument, the messages created so far
  parsed,             \* server: the result of parseClientMessages
  returned,           \* server: the list it returned
  completions,        \* number of LLM completions so far
  tools,              \* server: its second argument, the tool definitions
  clientHistory,      \* a client history handed to the transcoder
  parseResult,        \* what parseClientMessages returned for it, or Undefined
  serverMessages,     \* what clientToServerMessages returned for it, or Undefined
  assistantReply,     \* an assistant reply of the model
  clientMessages,     \* what serverAssistantMessageToClientMessages returned for it, <<>> before
  pendingEvaluation,  \* a partial evaluation to surface
  pendingMessage      \* what partialEvaluationToAssistantMessage returned for it, or Undefined

evalVars ==
  <<evalPc, partialEvaluation, index, toolStatesOutput, collectedOutput, mainPc,
    callPos, stageRejection, stageResults, delivered, entered, result, runNo, firstResult,
    isolates>>

serverVars ==
  <<messages, clientPc, serverPc, inputMessages, outputMessages, parsed, returned, completions,
    tools>>

transcoderVars == <<clientHistory, parseResult, serverMessages>>

projectionVars == <<assistantReply, clientMessages, pendingEvaluation, pendingMessage>>

vars == <<evalVars, serverVars, transcoderVars, projectionVars>>

(***************************************************************************)
(* run-tool-code.ts                                                        *)
(***************************************************************************)
\* every value the interceptor rejects with is taken for a new tool call
AnyInterceptionValue(value) ==
  /\ "type" \in DOMAIN value
  /\ value.type \in {"newToolCall", "unexpectedPendingTool"}

\* isMatching(NewToolCallPattern): a structural match on the value
isNewToolCall(value) ==
  /\ "type" \in DOMAIN value
  /\ value.type = "newToolCall"
  /\ "name" \in DOMAIN value
  /\ "args" \in DOMAIN value

\* toolStates.at(index + 1): the entry after the one at the cursor
AtOffByOne(toolStates, i) == IF i + 1 < Len(toolStates) THEN toolStates[i + 2] ELSE Undefined

\* toolStates.at(index)
At(toolStates, i) == IF i < Len(toolStates) THEN toolStates[i + 1] ELSE Undefined

\* an id derived from the position of the entry instead of a fresh one
PositionAsUUID(inUse) == {Cardinality(inUse)}

\* crypto.randomUUID(): an identifier that is in use nowhere in the block; which
\* one is not determined (two candidates keep the choice open)
randomUUID(inUse) ==
  LET free == UUIDs \ inUse IN
  {u \in free : (\A v \in free : u <= v) \/ (\A v \in free : u >= v)}

\* a cursor kept at module level: the next evaluation starts where the last ended
StaleCursor(previous) == previous

\* `let index = 0` of a new createToolCallImplementation closure
NewCursor(previous) == 0

\* `const toolStatesOutput: ToolState[] = []` of a new runToolCode call
NewOutput(previous) == <<>>

\* mutableToolStatesOutput.unshift(entry) instead of push
Unshift(output, pushed) == pushed \o output

\* mutableToolStatesOutput.push(entry)
Push(output, pushed) == output \o pushed

\* the resolved entry at the cursor is delivered but the cursor is not advanced
ResolvedWithoutAdvance(toolStates, i, toolName, toolArgs, uuid) ==
  LET currentItem == At(toolStates, i) IN
  CASE currentItem.type = "pendingTool" ->
         [ returned |-> [type |-> "reject",
                         value |-> [type |-> "unexpectedPendingTool", name |-> toolName, args |-> toolArgs]],
           pushed |-> <<>>,
           index |-> i ]
    [] currentItem.type = "undefined" ->
         [ returned |-> [type |-> "reject",
                         value |-> [type |-> "newToolCall", name |-> toolName, args |-> toolArgs]],
           pushed |-> <<PendingTool(uuid, toolName, toolArgs)>>,
           index |-> i + 1 ]
    [] currentItem.type = "resolvedTool" ->
         [ returned |-> [type |-> "resolve", value |-> currentItem.result],
           pushed |-> <<ResolvedTool(currentItem.id, currentItem.result)>>,
           index |-> i ]
    [] currentItem.type = "rejectedTool" ->
         [ returned |-> [type |-> "reject", value |-> currentItem.error],
           pushed |-> <<RejectedTool(currentItem.id, currentItem.error)>>,
           index |-> i + 1 ]

\* the call made at a pending entry is rejected and the cursor steps over the entry
PendingWithAdvance(toolStates, i, toolName, toolArgs, uuid) ==
  LET currentItem == At(toolStates, i) IN
  CASE currentItem.type = "pendingTool" ->
         [ returned |-> [type |-> "reject",
                         value |-> [type |-> "unexpectedPendingTool", name |-> toolName, args |-> toolArgs]],
           pushed |-> <<>>,
           index |-> i + 1 ]
    [] currentItem.type = "undefined" ->
         [ returned |-> [type |-> "reject",
                         value |-> [type |-> "newToolCall", name |-> toolName, args |-> toolArgs]],
           pushed |-> <<PendingTool(uuid, toolName, toolArgs)>>,
           index |-> i + 1 ]
    [] currentItem.type = "resolvedTool" ->
         [ returned |-> [type |-> "resolve", value |-> currentItem.result],
           pushed |-> <<ResolvedTool(currentItem.id, currentItem.result)>>,
           index |-> i + 1 ]
    [] currentItem.type = "rejectedTool" ->
         [ returned |-> [type |-> "reject", value |-> currentItem.error],
           pushed |-> <<RejectedTool(currentItem.id, currentItem.error)>>,
           index |-> i + 1 ]

\* One call of the function returned by createToolCallImplementation: the
\* PromiseInstruction returned, what is pushed to the output, the new cursor.
createToolCallImplementation(toolStates, i, toolName, toolArgs, uuid) ==
  LET currentItem == At(toolStates, i) IN
  CASE currentItem.type = "pendingTool" ->
         [ returned |-> [type |-> "reject",
                         value |-> [type |-> "unexpectedPendingTool", name |-> toolName, args |-> toolArgs]],
           pushed |-> <<>>,
           index |-> i ]
    [] currentItem.type = "undefined" ->
         [ returned |-> [type |-> "reject",
                         value |-> [type |-> "newToolCall", name |-> toolName, args |-> toolArgs]],
           pushed |-> <<PendingTool(uuid, toolName, toolArgs)>>,
           index |-> i + 1 ]
    [] currentItem.type = "resolvedTool" ->
         [ returned |-> [type |-> "resolve", value |-> currentItem.result],
           pushed |-> <<ResolvedTool(currentItem.id, currentItem.result)>>,
           index |-> i + 1 ]
    [] currentItem.type = "rejectedTool" ->
         [ returned |-> [type |-> "reject", value |-> currentItem.error],
           pushed |-> <<RejectedTool(currentItem.id, currentItem.error)>>,
           index |-> i + 1 ]

\* an error of main that is no new tool call is reported as an engine error
RuntimeErrorAsEngineError(collected, code, output) ==
  CASE collected.type = "undefined" ->
         [type |-> "error", error |-> "No output collected"]
    [] collected.type = "success" ->
         [type |-> "code_result", result |-> collected]
    [] collected.type = "error" /\ isNewToolCall(collected.error) ->
         [type |-> "partial_evaluation",
          partialEvaluation |-> [code |-> code, toolState |-> output]]
    [] collected.type = "error" /\ ~isNewToolCall(collected.error) ->
         [type |-> "error", error |-> collected.error]

\* a pass that recorded a pending entry is partial however main settled
PendingOutputAsPartial(collected, code, output) ==
  CASE collected.type = "undefined" ->
         [type |-> "error", error |-> "No output collected"]
    [] collected.type = "success" /\ \E k \in 1..Len(output) : output[k].type = "pendingTool" ->
         [type |-> "partial_evaluation",
          partialEvaluation |-> [code |-> code, toolState |-> output]]
    [] collected.type = "success" /\ ~\E k \in 1..Len(output) : output[k].type = "pendingTool" ->
         [type |-> "code_result", result |-> collected]
    [] collected.type = "error" /\ isNewToolCall(collected.error) ->
         [type |-> "partial_evaluation",
          partialEvaluation |-> [code |-> code, toolState |-> output]]
    [] collected.type = "error" /\ ~isNewToolCall(collected.error) ->
         [type |-> "code_result", result |-> [type |-> "error", error |-> collected.error]]

\* the match on collectedOutput that ends runToolCode
ClassifyOutput(collected, code, output) ==
  CASE collected.type = "undefined" ->
         [type |-> "error", error |-> "No output collected"]
    [] collected.type = "success" ->
         [type |-> "code_result", result |-> collected]
    [] collected.type = "error" /\ isNewToolCall(collected.error) ->
         [type |-> "partial_evaluation",
          partialEvaluation |-> [code |-> code, toolState |-> output]]
    [] collected.type = "error" /\ ~isNewToolCall(collected.error) ->
         [type |-> "code_result", result |-> [type |-> "error", error |-> collected.error]]

\* the isolate is left alive
LeakIsolate(all) == all

\* an isolate is held until dispose() has been called on it once
Held(disposeCalls) == disposeCalls # 1

\* `new Isolate({ memoryLimit: 8 })`: one more isolate, not yet disposed, next
\* to the isolates of earlier calls that are still held
NewIsolate(all) == Append(SelectSeq(all, Held), 0)

\* `isolate.dispose()` of the finally block, on the isolate of this call
Dispose(all) == [all EXCEPT ![Len(all)] = @ + 1]

code == partialEvaluation.code

Stage == code[mainPc]

\* runToolCode is called on a new input (the /evaluate endpoint, a test)
StartRun(pe, n, first) ==
  /\ partialEvaluation' = pe
  /\ index' = NewCursor(index)
  /\ toolStatesOutput' = NewOutput(toolStatesOutput)
  /\ collectedOutput' = Undefined
  /\ mainPc' = 1
  /\ callPos' = 1
  /\ stageRejection' = Undefined
  /\ stageResults' = <<>>
  /\ delivered' = <<>>
  /\ entered' = <<>>
  /\ result' = Undefined
  /\ runNo' = n
  /\ firstResult' = first
  /\ isolates' = NewIsolate(isolates)
  /\ evalPc' = "running"

runToolCode ==
  /\ evalPc = "idle"
  /\ serverPc = "idle"
  /\ \E c \in Programs, ts \in InputToolStates :
       StartRun([code |-> c, toolState |-> ts], 1, Undefined)
  /\ UNCHANGED serverVars
  /\ UNCHANGED <<transcoderVars, projectionVars>>

\* the same (code, toolState) is evaluated a second time
Replay ==
  /\ evalPc = "done"
  /\ runNo = 1
  /\ serverPc = "idle"
  /\ StartRun(partialEvaluation, 2, result)
  /\ UNCHANGED serverVars
  /\ UNCHANGED <<transcoderVars, projectionVars>>

\* main evaluates the next call expression of `await Promise.all([...])`:
\* the shim calls the host function, which consults the cursor
ToolFunction ==
  /\ evalPc = "running"
  /\ mainPc <= Len(code)
  /\ Stage.op \in {"await", "await_each"}
  /\ callPos <= Len(CallsOf(Stage, delivered))
  /\ LET call == CallsOf(Stage, delivered)[callPos]
         toolArgs == ArgValue(call.arg, delivered)
     IN \E uuid \in randomUUID(IdsOf(partialEvaluation.toolState) \cup IdsOf(toolStatesOutput)) :
          LET r == createToolCallImplementation(partialEvaluation.toolState, index,
                                                call.name, toolArgs, uuid)
          IN /\ index' = r.index
             /\ toolStatesOutput' = Push(toolStatesOutput, r.pushed)
             /\ entered' = Append(entered, [name |-> call.name, args |-> toolArgs, cursor |-> index])
             /\ IF r.returned.type = "resolve"
                  THEN /\ stageResults' = Append(stageResults, r.returned.value)
                       /\ UNCHANGED stageRejection
                  ELSE /\ stageRejection' =
                            IF stageRejection = Undefined
                              THEN [type |-> "rejected", value |-> r.returned.value]
                              ELSE stageRejection
                       /\ UNCHANGED stageResults
  /\ callPos' = callPos + 1
  /\ UNCHANGED <<evalPc, partialEvaluation, collectedOutput, mainPc, delivered,
                 result, runNo, firstResult, isolates>>
  /\ UNCHANGED serverVars
  /\ UNCHANGED <<transcoderVars, projectionVars>>

\* the awaited Promise.all settles: main goes on, or rejects
AwaitSettles ==
  /\ evalPc = "running"
  /\ mainPc <= Len(code)
  /\ Stage.op \in {"await", "await_each"}
  /\ callPos > Len(CallsOf(Stage, delivered))
  /\ IF stageRejection # Undefined /\ ~Stage.caught
       THEN /\ collectedOutput' = [type |-> "error", error |-> stageRejection.value]
            /\ evalPc' = "settled"
            /\ UNCHANGED <<mainPc, callPos, stageRejection, stageResults, delivered>>
       ELSE /\ delivered' = IF stageRejection = Undefined
                               THEN delivered \o stageResults
                               ELSE delivered
            /\ mainPc' = mainPc + 1
            /\ callPos' = 1
            /\ stageRejection' = Undefined
            /\ stageResults' = <<>>
            /\ UNCHANGED <<collectedOutput, evalPc>>
  /\ UNCHANGED <<partialEvaluation, index, toolStatesOutput, entered, result, runNo, firstResult, isolates>>
  /\ UNCHANGED serverVars
  /\ UNCHANGED <<transcoderVars, projectionVars>>

\* main executes a throw statement
MainThrows ==
  /\ evalPc = "running"
  /\ mainPc <= Len(code)
  /\ Stage.op = "throw"
  /\ collectedOutput' = [type |-> "error", error |-> Stage.value]
  /\ evalPc' = "settled"
  /\ UNCHANGED <<partialEvaluation, index, toolStatesOutput, mainPc, callPos, stageRejection,
                 stageResults, delivered, entered, result, runNo, firstResult, isolates>>
  /\ UNCHANGED serverVars
  /\ UNCHANGED <<transcoderVars, projectionVars>>

\* main returns the results it was delivered
MainReturns ==
  /\ evalPc = "running"
  /\ mainPc > Len(code)
  /\ collectedOutput' = [type |-> "success", value |-> delivered]
  /\ evalPc' = "settled"
  /\ UNCHANGED <<partialEvaluation, index, toolStatesOutput, mainPc, callPos, stageRejection,
                 stageResults, delivered, entered, result, runNo, firstResult, isolates>>
  /\ UNCHANGED serverVars
  /\ UNCHANGED <<transcoderVars, projectionVars>>

\* main awaits a promise that never settles: the script ends, nothing collected
MainHangs ==
  /\ evalPc = "running"
  /\ mainPc <= Len(code)
  /\ Stage.op = "hang"
  /\ evalPc' = "settled"
  /\ UNCHANGED <<partialEvaluation, index, toolStatesOutput, collectedOutput, mainPc, callPos,
                 stageRejection, stageResults, delivered, entered, result, runNo, firstResult, isolates>>
  /\ UNCHANGED serverVars
  /\ UNCHANGED <<transcoderVars, projectionVars>>

\* the text an error is reported as
tryJSONStringify(value) == JSONStringify(value)

\* script.run throws, the top level of the program having thrown: the catch
\* block puts the error, as text, where the collector's output is expected
ScriptThrows ==
  /\ evalPc = "running"
  /\ code = ThrowsAtTopLevel
  /\ collectedOutput' = [type |-> "error", error |-> tryJSONStringify(Stage.value)]
  /\ evalPc' = "settled"
  /\ UNCHANGED <<partialEvaluation, index, toolStatesOutput, mainPc, callPos, stageRejection,
                 stageResults, delivered, entered, result, runNo, firstResult, isolates>>
  /\ UNCHANGED serverVars
  /\ UNCHANGED <<transcoderVars, projectionVars>>

\* isolate.compileScript throws on a program text that does not compile: the
\* catch block returns an engine error, the finally block disposes
CompileFails ==
  /\ evalPc = "running"
  /\ code = Malformed
  /\ result' = [type |-> "error", error |-> "SyntaxError"]
  /\ isolates' = Dispose(isolates)
  /\ evalPc' = "done"
  /\ UNCHANGED <<partialEvaluation, index, toolStatesOutput, collectedOutput, mainPc, callPos,
                 stageRejection, stageResults, delivered, entered, runNo, firstResult>>
  /\ UNCHANGED serverVars
  /\ UNCHANGED <<transcoderVars, projectionVars>>

\* script.run has returned: runToolCode classifies, disposes and returns
Classify ==
  /\ evalPc = "settled"
  /\ result' = ClassifyOutput(collectedOutput, code, toolStatesOutput)
  /\ isolates' = Dispose(isolates)
  /\ evalPc' = "done"
  /\ UNCHANGED <<partialEvaluation, index, toolStatesOutput, collectedOutput, mainPc, callPos,
                 stageRejection, stageResults, delivered, entered, runNo, firstResult>>
  /\ UNCHANGED serverVars
  /\ UNCHANGED <<transcoderVars, projectionVars>>

Init ==
  /\ evalPc = "idle"
  /\ partialEvaluation = [code |-> <<>>, toolState |-> <<>>]
  /\ index = 0
  /\ toolStatesOutput = <<>>
  /\ collectedOutput = Undefined
  /\ mainPc = 1
  /\ callPos = 1
  /\ stageRejection = Undefined
  /\ stageResults = <<>>
  /\ delivered = <<>>
  /\ entered = <<>>
  /\ result = Undefined
  /\ runNo = 1
  /\ firstResult = Undefined
  /\ isolates = <<>>
  /\ messages = <<UserMessage("What is the news today?")>>
  /\ clientPc = "ready"
  /\ serverPc = "idle"
  /\ inputMessages = <<>>
  /\ outputMessages = <<>>
  /\ parsed = Undefined
  /\ returned = <<>>
  /\ completions = 0
  /\ tools = <<>>
  /\ clientHistory = <<>>
  /\ parseResult = Undefined
  /\ serverMessages = Undefined
  /\ assistantReply = Undefined
  /\ clientMessages = <<>>
  /\ pendingEvaluation = Undefined
  /\ pendingMessage = Undefined

(***************************************************************************)
(* server.ts : the orchestrator, one action per stretch between awaits     *)
(***************************************************************************)
\* the assistant replies the model can give: a plain answer, or one
\* run_typescript tool call carrying a program
LLMAnswerReplies == { [role |-> "assistant", content |-> "Here are the news"] }

LLMCodeReplies ==
  { [role |-> "assistant", content |-> "",
     toolCalls |-> <<[id |-> id,
                      function |-> [name |-> "run_typescript",
                                    arguments |-> JSONStringify([code |-> c])]]>>] :
      id \in CodeIds, c \in ServePrograms }

\* the value by which a tool implementation reports that it failed
ToolFailure == "Error: tool failed"

\* what a client tool implementation returns; "undefined" stands for a tool
\* that returns nothing
ClientToolResults == Results \cup {"undefined", ToolFailure}

\* JSON.stringify(result) of the client: undefined is not turned into text
ToolResultContent(res) ==
  IF res = "undefined" THEN [undefined |-> TRUE] ELSE JSONStringify(res)

\* every code_result outcome is reported with status success
CodeResultAlwaysSuccess(id, res) ==
  CodeResultMessage(id, [status |-> "success",
                         data |-> IF res.type = "success" THEN res.value ELSE res.error])

\* the code_result message server builds for a code_result outcome
CodeResultFor(id, res) ==
  IF res.type = "success"
    THEN CodeResultMessage(id, [status |-> "success", data |-> res.value])
    ELSE CodeResultMessage(id, [status |-> "error", error |-> res.error])

\* the recursive call is made without the new code_result message
RecurseWithoutCodeResult(output, codeResultMessage) == output

\* `[...outputMessages, codeResultMessage]`, the third argument of the recursive call
RecurseWithCodeResult(output, codeResultMessage) == Append(output, codeResultMessage)

\* the tool definitions the client passes to the server
getToolDefinitions ==
  << [type |-> "function", function |-> [name |-> "webSearch", strict |-> TRUE]],
    [type |-> "function", function |-> [name |-> "summarize", strict |-> TRUE]] >>

\* CodeModeAgent.run calls the server with the system prompt and its history
ClientCallsServer ==
  /\ clientPc = "ready"
  /\ serverPc = "idle"
  /\ evalPc \in {"idle", "done"}
  /\ Len(messages) <= MaxHistory
  /\ inputMessages' = <<SystemMessage("You are a helpful assistant")>> \o messages
  /\ tools' = getToolDefinitions
  /\ outputMessages' = <<>>
  /\ serverPc' = "parse"
  /\ clientPc' = "waiting"
  /\ UNCHANGED <<messages, parsed, returned, completions>>
  /\ UNCHANGED evalVars
  /\ UNCHANGED <<transcoderVars, projectionVars>>

\* server, case "code": the open block is handed to runToolCode
ServerRunsCode ==
  /\ serverPc = "parse"
  /\ LET p == parseClientMessages(inputMessages \o outputMessages)
     IN /\ p.mode = "code"
        /\ parsed' = p
        /\ StartRun([code |-> p.code, toolState |-> p.partialEvaluation.toolState], 1, Undefined)
  /\ serverPc' = "evaluating"
  /\ UNCHANGED <<tools, messages, clientPc, inputMessages, outputMessages, returned, completions>>
  /\ UNCHANGED <<transcoderVars, projectionVars>>

\* the model is called whatever the classification of the history
ServerCallsLLMInAnyMode ==
  /\ serverPc = "parse"
  /\ LET p == parseClientMessages(inputMessages \o outputMessages)
     IN /\ p.mode \in {"llm", "code"}
        /\ parsed' = p
  /\ serverPc' = "llm"
  /\ UNCHANGED <<tools, messages, clientPc, inputMessages, outputMessages, returned, completions>>
  /\ UNCHANGED evalVars
  /\ UNCHANGED <<transcoderVars, projectionVars>>

\* server, case "llm": the projected history is sent to the model
ServerCallsLLM ==
  /\ serverPc = "parse"
  /\ LET p == parseClientMessages(inputMessages \o outputMessages)
     IN /\ p.mode = "llm"
        /\ parsed' = p
  /\ serverPc' = "llm"
  /\ UNCHANGED <<tools, messages, clientPc, inputMessages, outputMessages, returned, completions>>
  /\ UNCHANGED evalVars
  /\ UNCHANGED <<transcoderVars, projectionVars>>

\* server, case "error", or an exception of parseClientMessages
ServerRaisesOnHistory ==
  /\ serverPc = "parse"
  /\ LET p == parseClientMessages(inputMessages \o outputMessages)
     IN /\ p.mode \in {"error", "throw"}
        /\ parsed' = p
  /\ serverPc' = "raised"
  /\ UNCHANGED <<tools, messages, clientPc, inputMessages, outputMessages, returned, completions>>
  /\ UNCHANGED evalVars
  /\ UNCHANGED <<transcoderVars, projectionVars>>

\* the code_result message is pushed to the input history, and server recurses
ServerPushesCodeResultToInput ==
  /\ serverPc = "evaluating"
  /\ evalPc = "done"
  /\ result.type = "code_result"
  /\ inputMessages' = Append(inputMessages, CodeResultFor(parsed.id, result.result))
  /\ serverPc' = "parse"
  /\ UNCHANGED <<tools, messages, clientPc, outputMessages, parsed, returned, completions>>
  /\ UNCHANGED evalVars
  /\ UNCHANGED <<transcoderVars, projectionVars>>

\* the code_result message is appended twice before server recurses
ServerAppendsCodeResultTwice ==
  /\ serverPc = "evaluating"
  /\ evalPc = "done"
  /\ result.type = "code_result"
  /\ outputMessages' = outputMessages \o <<CodeResultFor(parsed.id, result.result),
                                            CodeResultFor(parsed.id, result.result)>>
  /\ serverPc' = "parse"
  /\ UNCHANGED <<tools, messages, clientPc, inputMessages, parsed, returned, completions>>
  /\ UNCHANGED evalVars
  /\ UNCHANGED <<transcoderVars, projectionVars>>

\* runToolCode returned code_result: append the code_result message, recurse
ServerAppendsCodeResult ==
  /\ serverPc = "evaluating"
  /\ evalPc = "done"
  /\ result.type = "code_result"
  /\ outputMessages' = RecurseWithCodeResult(outputMessages, CodeResultFor(parsed.id, result.result))
  /\ serverPc' = "parse"
  /\ UNCHANGED <<tools, messages, clientPc, inputMessages, parsed, returned, completions>>
  /\ UNCHANGED evalVars
  /\ UNCHANGED <<transcoderVars, projectionVars>>

\* runToolCode returned partial_evaluation: return the pending tool calls
ServerReturnsPending ==
  /\ serverPc = "evaluating"
  /\ evalPc = "done"
  /\ result.type = "partial_evaluation"
  /\ returned' = Append(outputMessages, partialEvaluationToAssistantMessage(result.partialEvaluation))
  /\ serverPc' = "returned"
  /\ UNCHANGED <<tools, messages, clientPc, inputMessages, outputMessages, parsed, completions>>
  /\ UNCHANGED evalVars
  /\ UNCHANGED <<transcoderVars, projectionVars>>

\* the engine error is reported to the model as a code_result error and
\* server goes on
ServerSwallowsEngineError ==
  /\ serverPc = "evaluating"
  /\ evalPc = "done"
  /\ result.type = "error"
  /\ outputMessages' = Append(outputMessages,
                              CodeResultMessage(parsed.id, [status |-> "error", error |-> result.error]))
  /\ serverPc' = "parse"
  /\ UNCHANGED <<tools, messages, clientPc, inputMessages, parsed, returned, completions>>
  /\ UNCHANGED evalVars
  /\ UNCHANGED <<transcoderVars, projectionVars>>

\* runToolCode returned error: server throws
ServerRaisesOnEngineError ==
  /\ serverPc = "evaluating"
  /\ evalPc = "done"
  /\ result.type = "error"
  /\ serverPc' = "raised"
  /\ UNCHANGED <<tools, messages, clientPc, inputMessages, outputMessages, parsed, returned, completions>>
  /\ UNCHANGED evalVars
  /\ UNCHANGED <<transcoderVars, projectionVars>>

\* the model replies with a run_typescript tool call: project it, recurse
LLMEmitsCode ==
  /\ serverPc = "llm"
  /\ completions + 1 < MaxCompletions
  /\ \E assistantMessage \in LLMCodeReplies :
       outputMessages' = outputMessages \o serverAssistantMessageToClientMessages(assistantMessage)
  /\ completions' = completions + 1
  /\ serverPc' = "parse"
  /\ UNCHANGED <<tools, messages, clientPc, inputMessages, parsed, returned>>
  /\ UNCHANGED evalVars
  /\ UNCHANGED <<transcoderVars, projectionVars>>

\* the model replies without tool call: return
LLMAnswers ==
  /\ serverPc = "llm"
  /\ \E assistantMessage \in LLMAnswerReplies :
       returned' = outputMessages \o serverAssistantMessageToClientMessages(assistantMessage)
  /\ completions' = completions + 1
  /\ serverPc' = "returned"
  /\ UNCHANGED <<tools, messages, clientPc, inputMessages, outputMessages, parsed>>
  /\ UNCHANGED evalVars
  /\ UNCHANGED <<transcoderVars, projectionVars>>

\* CodeModeAgent.run: push the new messages; stop when the last one has no
\* toolCalls, else run each tool and push one tool message per call
ClientReceives ==
  /\ serverPc = "returned"
  /\ clientPc = "waiting"
  /\ LET assistantMessage == Last(returned)
     IN IF "toolCalls" \notin DOMAIN assistantMessage
          THEN /\ messages' = messages \o returned
               /\ clientPc' = "finished"
          ELSE /\ \E rs \in [1..Len(assistantMessage.toolCalls) -> ClientToolResults] :
                    messages' = messages \o returned \o
                      [k \in 1..Len(assistantMessage.toolCalls) |->
                         ToolMessage(assistantMessage.toolCalls[k].id, ToolResultContent(rs[k]))]
               /\ clientPc' = "ready"
  /\ serverPc' = "idle"
  /\ UNCHANGED <<tools, inputMessages, outputMessages, parsed, returned, completions>>
  /\ UNCHANGED evalVars
  /\ UNCHANGED <<transcoderVars, projectionVars>>

\* the exception of the server reaches the client
ClientSeesError ==
  /\ serverPc = "raised"
  /\ clientPc = "waiting"
  /\ clientPc' = "failed"
  /\ serverPc' = "idle"
  /\ UNCHANGED <<tools, messages, inputMessages, outputMessages, parsed, returned, completions>>
  /\ UNCHANGED evalVars
  /\ UNCHANGED <<transcoderVars, projectionVars>>

Next ==
  \/ runToolCode
  \/ Replay
  \/ ToolFunction
  \/ AwaitSettles
  \/ MainThrows
  \/ MainReturns
  \/ MainHangs
  \/ ScriptThrows
  \/ CompileFails
  \/ Classify

Spec == Init /\ [][Next]_vars

\* the orchestrator driven by the client loop
ServeNext ==
  \/ ClientCallsServer
  \/ ServerRunsCode
  \/ ServerCallsLLM
  \/ ServerRaisesOnHistory
  \/ ServerAppendsCodeResult
  \/ ServerReturnsPending
  \/ ServerRaisesOnEngineError
  \/ LLMEmitsCode
  \/ LLMAnswers
  \/ ClientReceives
  \/ ClientSeesError
  \/ ToolFunction
  \/ AwaitSettles
  \/ MainThrows
  \/ MainReturns
  \/ MainHangs
  \/ ScriptThrows
  \/ CompileFails
  \/ Classify

ServeSpec == Init /\ [][ServeNext]_vars

\* one step of a running server call: a step of server itself, of the
\* sandbox pass it awaits, or the completion it awaits
ServerStep ==
  \/ ServerRunsCode \/ ServerCallsLLM \/ ServerRaisesOnHistory
  \/ ServerAppendsCodeResult \/ ServerReturnsPending \/ ServerRaisesOnEngineError
  \/ LLMEmitsCode \/ LLMAnswers
  \/ ToolFunction \/ AwaitSettles \/ MainThrows \/ MainReturns \/ MainHangs \/ ScriptThrows
  \/ CompileFails \/ Classify

\* server is an async function: a step that is possible is eventually taken
ServeLiveSpec == ServeSpec /\ WF_vars(ServerStep)

(***************************************************************************)
(* The /evaluate endpoint called twice by a client of its own: first with  *)
(* a program and no tool-state, then with the tool-state of the partial    *)
(* result, its pending entries answered, and a program that need not make  *)
(* the same calls                                                          *)
(***************************************************************************)
\* the tool-state with each pending entry replaced by a resolved one
Answered(toolState, answers) ==
  [k \in 1..Len(toolState) |->
     IF toolState[k].type = "pendingTool"
       THEN ResolvedTool(toolState[k].id, answers[k])
       ELSE toolState[k]]

EvaluateFirst ==
  /\ evalPc = "idle"
  /\ \E c \in ServePrograms : StartRun([code |-> c, toolState |-> <<>>], 1, Undefined)
  /\ UNCHANGED serverVars
  /\ UNCHANGED <<transcoderVars, projectionVars>>

EvaluateAnswered ==
  /\ evalPc = "done"
  /\ runNo = 1
  /\ result.type = "partial_evaluation"
  /\ \E c \in ServePrograms, answers \in [1..Len(result.partialEvaluation.toolState) -> Results] :
       StartRun([code |-> c, toolState |-> Answered(result.partialEvaluation.toolState, answers)],
                3, result)
  /\ UNCHANGED serverVars
  /\ UNCHANGED <<transcoderVars, projectionVars>>

ResumeNext ==
  \/ EvaluateFirst
  \/ EvaluateAnswered
  \/ ToolFunction
  \/ AwaitSettles
  \/ MainThrows
  \/ MainReturns
  \/ MainHangs
  \/ ScriptThrows
  \/ CompileFails
  \/ Classify

ResumeSpec == Init /\ [][ResumeNext]_vars

(***************************************************************************)
(* The orchestrator called on an arbitrary client history                  *)
(***************************************************************************)
MaxGivenMessages == 2

\* the messages of a history the client loop starts from: client-visible
\* shapes of types.ts, among them a tool call with its answers (one of them
\* no JSON text), an open code block and a code_result message
GivenMessageShapes ==
  << UserMessage("What is the news today?"),
    [role |-> "assistant", content |-> "Here are the news"],
    partialEvaluationToAssistantMessage(
      [code |-> <<>>, toolState |-> <<PendingTool(1, "webSearch", [query |-> "sport news"])>>]),
    ToolMessage(1, ToolResultContent("r1")),
    ToolMessage(1, ToolResultContent("undefined")),
    CodeMessage("call_1", <<AwaitAll(<<Call("webSearch", "sport news")>>, FALSE)>>),
    CodeMessage("call_2", <<Hang>>),
    CodeResultFor("call_1", [type |-> "success", value |-> <<"r1">>]) >>

\* the state before the client's first call, its history being any sequence
\* of these messages
GivenInit ==
  /\ \E shapes \in SeqsUpTo(1..Len(GivenMessageShapes), MaxGivenMessages) :
       messages = [k \in DOMAIN shapes |-> GivenMessageShapes[shapes[k]]]
  /\ evalPc = "idle"
  /\ partialEvaluation = [code |-> <<>>, toolState |-> <<>>]
  /\ index = 0
  /\ toolStatesOutput = <<>>
  /\ collectedOutput = Undefined
  /\ mainPc = 1
  /\ callPos = 1
  /\ stageRejection = Undefined
  /\ stageResults = <<>>
  /\ delivered = <<>>
  /\ entered = <<>>
  /\ result = Undefined
  /\ runNo = 1
  /\ firstResult = Undefined
  /\ isolates = <<>>
  /\ clientPc = "ready"
  /\ serverPc = "idle"
  /\ inputMessages = <<>>
  /\ outputMessages = <<>>
  /\ parsed = Undefined
  /\ returned = <<>>
  /\ completions = 0
  /\ tools = <<>>
  /\ clientHistory = <<>>
  /\ parseResult = Undefined
  /\ serverMessages = Undefined
  /\ assistantReply = Undefined
  /\ clientMessages = <<>>
  /\ pendingEvaluation = Undefined
  /\ pendingMessage = Undefined

ServeGivenSpec == GivenInit /\ [][ServeNext]_vars

(***************************************************************************)
(* The transcoder applied to arbitrary client histories                    *)
(***************************************************************************)
MaxClientMessages == 4

\* the messages a caller can put in a history: the client-visible shapes of
\* types.ts, among them tool messages whose content is no JSON text, an
\* assistant message of the server's own run_typescript shape, and code and
\* code_result messages of two ids
ClientMessageShapes ==
  << SystemMessage("You are a helpful assistant"),
    UserMessage("What is the news today?"),
    [role |-> "assistant", content |-> "Here are the news"],
    partialEvaluationToAssistantMessage(
      [code |-> <<>>, toolState |-> <<PendingTool("tool_1", "webSearch", [query |-> "sport news"])>>]),
    [role |-> "assistant", content |-> "",
     toolCalls |-> <<[id |-> "call_0",
                      function |-> [name |-> "run_typescript",
                                    arguments |-> JSONStringify([code |-> <<Throw(ErrorOops)>>])]]>>],
    ToolMessage("tool_1", ToolResultContent("r1")),
    ToolMessage("tool_1", ToolResultContent("undefined")),
    CodeMessage("call_1", <<AwaitAll(<<Call("webSearch", "sport news")>>, FALSE)>>),
    CodeMessage("call_2", <<Throw(ErrorOops)>>),
    CodeResultFor("call_1", [type |-> "success", value |-> <<"r1">>]),
    CodeResultFor("call_2", [type |-> "error", error |-> ErrorOops]) >>

\* a history, given the shape of each of its messages
HistoryOf(shapes) == [k \in DOMAIN shapes |-> ClientMessageShapes[shapes[k]]]

TranscoderInit ==
  /\ \E shapes \in SeqsUpTo(1..Len(ClientMessageShapes), MaxClientMessages) :
       clientHistory = HistoryOf(shapes)
  /\ parseResult = Undefined
  /\ serverMessages = Undefined
  /\ evalPc = "idle"
  /\ partialEvaluation = [code |-> <<>>, toolState |-> <<>>]
  /\ index = 0
  /\ toolStatesOutput = <<>>
  /\ collectedOutput = Undefined
  /\ mainPc = 1
  /\ callPos = 1
  /\ stageRejection = Undefined
  /\ stageResults = <<>>
  /\ delivered = <<>>
  /\ entered = <<>>
  /\ result = Undefined
  /\ runNo = 1
  /\ firstResult = Undefined
  /\ isolates = <<>>
  /\ messages = <<>>
  /\ clientPc = "ready"
  /\ serverPc = "idle"
  /\ inputMessages = <<>>
  /\ outputMessages = <<>>
  /\ parsed = Undefined
  /\ returned = <<>>
  /\ completions = 0
  /\ tools = <<>>
  /\ assistantReply = Undefined
  /\ clientMessages = <<>>
  /\ pendingEvaluation = Undefined
  /\ pendingMessage = Undefined

\* parseClientMessages is applied to the history
ParseHistory ==
  /\ parseResult = Undefined
  /\ parseResult' = parseClientMessages(clientHistory)
  /\ UNCHANGED <<clientHistory, serverMessages>>
  /\ UNCHANGED <<evalVars, serverVars, projectionVars>>

\* clientToServerMessages is applied to the history
ProjectHistory ==
  /\ serverMessages = Undefined
  /\ serverMessages' = clientToServerMessages(clientHistory)
  /\ UNCHANGED <<clientHistory, parseResult>>
  /\ UNCHANGED <<evalVars, serverVars, projectionVars>>

TranscoderNext ==
  \/ ParseHistory
  \/ ProjectHistory

TranscoderSpec == TranscoderInit /\ [][TranscoderNext]_vars

(***************************************************************************)
(* The two projections towards the client, applied to arbitrary replies    *)
(* of the model and to arbitrary tool-states                               *)
(***************************************************************************)
\* a run_typescript tool call as the model emits it
RunTypeScriptToolCall(id, c) ==
  [id |-> id, function |-> [name |-> "run_typescript", arguments |-> JSONStringify([code |-> c])]]

\* ServerAssistantMessage of types.ts: toolCalls is absent, empty, or a list
\* of run_typescript tool calls
ServerAssistantMessages ==
  LET contents == {"", "Here are the news"}
      calls == { RunTypeScriptToolCall(id, c) : id \in CodeIds, c \in ServePrograms }
  IN { [role |-> "assistant", content |-> content] : content \in contents }
       \cup { [role |-> "assistant", content |-> content, toolCalls |-> toolCalls] :
                content \in contents,
                toolCalls \in {<<>>} \cup { <<call>> : call \in calls }
                                   \cup { <<first, second>> : first \in calls, second \in calls } }

ProjectionInit ==
  /\ assistantReply \in ServerAssistantMessages
  /\ pendingEvaluation \in { [code |-> <<>>, toolState |-> toolState] : toolState \in InputToolStates }
  /\ clientMessages = <<>>
  /\ pendingMessage = Undefined
  /\ clientHistory = <<>>
  /\ parseResult = Undefined
  /\ serverMessages = Undefined
  /\ evalPc = "idle"
  /\ partialEvaluation = [code |-> <<>>, toolState |-> <<>>]
  /\ index = 0
  /\ toolStatesOutput = <<>>
  /\ collectedOutput = Undefined
  /\ mainPc = 1
  /\ callPos = 1
  /\ stageRejection = Undefined
  /\ stageResults = <<>>
  /\ delivered = <<>>
  /\ entered = <<>>
  /\ result = Undefined
  /\ runNo = 1
  /\ firstResult = Undefined
  /\ isolates = <<>>
  /\ messages = <<>>
  /\ clientPc = "ready"
  /\ serverPc = "idle"
  /\ inputMessages = <<>>
  /\ outputMessages = <<>>
  /\ parsed = Undefined
  /\ returned = <<>>
  /\ completions = 0
  /\ tools = <<>>

\* serverAssistantMessageToClientMessages is applied to the reply
ProjectReply ==
  /\ clientMessages = <<>>
  /\ clientMessages' = serverAssistantMessageToClientMessages(assistantReply)
  /\ UNCHANGED <<assistantReply, pendingEvaluation, pendingMessage>>
  /\ UNCHANGED <<evalVars, serverVars, transcoderVars>>

\* partialEvaluationToAssistantMessage is applied to the partial evaluation
SurfacePending ==
  /\ pendingMessage = Undefined
  /\ pendingMessage' = partialEvaluationToAssistantMessage(pendingEvaluation)
  /\ UNCHANGED <<assistantReply, clientMessages, pendingEvaluation>>
  /\ UNCHANGED <<evalVars, serverVars, transcoderVars>>

ProjectionNext ==
  \/ ProjectReply
  \/ SurfacePending

ProjectionSpec == ProjectionInit /\ [][ProjectionNext]_vars

(***************************************************************************)
(* Vocabulary of the properties of runToolCode                             *)
(***************************************************************************)
input == partialEvaluation.toolState

Done == evalPc = "done"

IsPartial(r) == r.type = "partial_evaluation"

IsSuccess(r) == r.type = "code_result" /\ r.result.type = "success"

IsRuntimeError(r) == r.type = "code_result" /\ r.result.type = "error"

Settled(toolState) == \A k \in 1..Len(toolState) : toolState[k].type \in {"resolvedTool", "rejectedTool"}

AllResolved(toolState) == \A k \in 1..Len(toolState) : toolState[k].type = "resolvedTool"

\* a RunToolCodeResult with the ids of its pending entries erased
StripResult(r) ==
  IF IsPartial(r)
    THEN [r EXCEPT !.partialEvaluation.toolState = StripPendingIds(@)]
    ELSE r

\* the calls entered when the cursor was past the end of the input
NewCalls == SelectSeq(entered, LAMBDA e : e.cursor >= Len(input))

PendingOf(toolState) == SelectSeq(toolState, LAMBDA t : t.type = "pendingTool")

\* main was settled by the rejection of an awaited fan-out
SettledByAwait ==
  /\ collectedOutput.type = "error"
  /\ mainPc <= Len(code)
  /\ Stage.op = "await"

\* main is a chain of single awaited calls, nothing caught, nothing thrown
Sequential(c) == \A k \in 1..Len(c) : c[k].op = "await" /\ Len(c[k].calls) = 1 /\ ~c[k].caught

\* the argument of the call of statement k of a sequential program, given
\* the results of the input's first k - 1 entries
SequentialArgs(c, toolState, k) ==
  ArgValue(c[k].calls[1].arg, [j \in 1..(k - 1) |-> toolState[j].result])

PrefixExtension(in, out) ==
  /\ Len(out) >= Len(in)
  /\ \A k \in 1..Len(in) : out[k] = in[k]
  /\ \A k \in (Len(in) + 1)..Len(out) : out[k].type = "pendingTool"

FanOutPastInput ==
  /\ Done
  /\ SettledByAwait
  /\ Len(entered) >= Len(Stage.calls)
  /\ entered[Len(entered) - Len(Stage.calls) + 1].cursor >= Len(input)

C3_FanOutRecordedInOrder ==
  FanOutPastInput =>
    /\ IsPartial(result)
    /\ LET out == result.partialEvaluation.toolState
           new == NewCalls
       IN /\ Len(new) >= Len(Stage.calls)
          /\ Len(out) = Len(input) + Len(new)
          /\ \A k \in 1..Len(new) :
               LET t == out[Len(input) + k]
               IN /\ t.type = "pendingTool"
                  /\ t.function = [name |-> new[k].name, arguments |-> new[k].args]

C3_Witness ==
  /\ FanOutPastInput
  /\ Len(Stage.calls) = 2
  /\ Len(PendingOf(result.partialEvaluation.toolState)) >= 2
  /\ PendingOf(result.partialEvaluation.toolState)[1].function.arguments
       # PendingOf(result.partialEvaluation.toolState)[2].function.arguments

(***************************************************************************)
(* C4. A program that awaits n tool calls one after another, given the     *)
(* first j results as resolved entries, returns partial with those j       *)
(* entries followed by exactly one pending entry for call j + 1 when       *)
(* j < n, and code_result success when j = n.                              *)
(***************************************************************************)
C4_SequentialChain ==
  (Done /\ Sequential(code) /\ AllResolved(input) /\ Len(input) <= Len(code)) =>
    LET j == Len(input)
        n == Len(code)
    IN IF j < n
         THEN /\ IsPartial(result)
              /\ StripPendingIds(result.partialEvaluation.toolState)
                   = input \o <<PendingTool(0, code[j + 1].calls[1].name,
                                            SequentialArgs(code, input, j + 1))>>
         ELSE IsSuccess(result)

C4_Witness ==
  /\ Done /\ Sequential(code) /\ AllResolved(input)
  /\ Len(code) = 2 /\ Len(input) = 1
  /\ IsPartial(result)
  /\ code[2].calls[1].arg = "$prev"

(***************************************************************************)
(* C5. When every tool call of the pass is satisfied by a resolved input   *)
(* entry and main resolves, the outcome is code_result success with the    *)
(* value main computed, the k-th call having received the result of input  *)
(* entry k.                                                                *)
(***************************************************************************)
AllCallsSatisfied ==
  \A k \in 1..Len(entered) :
    /\ entered[k].cursor < Len(input)
    /\ input[entered[k].cursor + 1].type = "resolvedTool"

C5_ResolvedGivesSuccess ==
  (Done /\ collectedOutput.type = "success" /\ AllCallsSatisfied) =>
    /\ result = [type |-> "code_result", result |-> [type |-> "success", value |-> delivered]]
    /\ Len(delivered) = Len(entered)
    /\ \A k \in 1..Len(delivered) : k <= Len(input) /\ delivered[k] = input[k].result

C5_Witness ==
  /\ Done /\ collectedOutput.type = "success" /\ AllCallsSatisfied
  /\ Len(entered) = 2
  /\ delivered[1] # delivered[2]

(***************************************************************************)
(* C6. runToolCode returns partial_evaluation only when main rejected with *)
(* a value of the newToolCall shape and at least one pending entry was     *)
(* appended during the pass.                                               *)
(***************************************************************************)
C6_PartialHasPending ==
  (Done /\ IsPartial(result)) =>
    /\ collectedOutput.type = "error"
    /\ isNewToolCall(collectedOutput.error)
    /\ Len(PendingOf(result.partialEvaluation.toolState)) >= 1

(***************************************************************************)
(* C7. When main rejects with a value that is not of the newToolCall       *)
(* shape, the outcome is code_result error with that value; and a program  *)
(* that failed before calling any tool has recorded no entry.              *)
(***************************************************************************)
C7_RuntimeErrorIsCodeResult ==
  (Done /\ collectedOutput.type = "error" /\ ~isNewToolCall(collectedOutput.error)) =>
    /\ result = [type |-> "code_result",
                 result |-> [type |-> "error", error |-> collectedOutput.error]]
    /\ (entered = <<>> => toolStatesOutput = <<>>)

C7_Witness ==
  /\ Done
  /\ collectedOutput = [type |-> "error", error |-> ErrorOops]
  /\ entered = <<>>
  /\ Len(input) >= 1

OpenCodeId(history) == history[findLastIndex([i \in 1..Len(history) |-> history[i].role = "code"])].id

\* runToolCode has just returned code_result to server
CodeResultReturned == serverPc = "evaluating" /\ evalPc = "done" /\ result.type = "code_result"

(***************************************************************************)
(* C8. When runToolCode returns code_result for the open block, server     *)
(* appends exactly one code_result message with the id of the open code    *)
(* message and status success with the value, or error with the error; it  *)
(* does not raise, and the extended history classifies as llm, so the next *)
(* step is an LLM turn.                                                    *)
(***************************************************************************)
C8_CodeResultAppended ==
  [][ (CodeResultReturned /\ serverPc' # serverPc) =>
        /\ serverPc' = "parse"
        /\ outputMessages' =
             Append(outputMessages,
               CodeResultMessage(OpenCodeId(inputMessages \o outputMessages),
                 IF result.result.type = "success"
                   THEN [status |-> "success", data |-> result.result.value]
                   ELSE [status |-> "error", error |-> result.result.error]))
        /\ parseClientMessages(inputMessages \o outputMessages').mode = "llm" ]_vars

C8_Witness ==
  /\ serverPc = "parse"
  /\ outputMessages # <<>>
  /\ Last(outputMessages).role = "code_result"
  /\ Last(outputMessages).result = [status |-> "error", error |-> ErrorOops]

(***************************************************************************)
(* C10. Every list server returns is non-empty and ends with an assistant  *)
(* message that either carries at least one tool call for the client to    *)
(* answer or is a terminal message: plain content and no tool calls.       *)
(***************************************************************************)
C10_ReturnEndsPendingOrTerminal ==
  serverPc = "returned" =>
    /\ returned # <<>>
    /\ Last(returned).role = "assistant"
    /\ \/ HasToolCalls(Last(returned))
       \/ "toolCalls" \notin DOMAIN Last(returned)

(***************************************************************************)
(* C11. A call of server ends: from the moment it parses the history it    *)
(* eventually returns a list of messages or raises, after finitely many    *)
(* sandbox passes and completions, the model emitting at most              *)
(* MaxCompletions replies and every program being finite.                  *)
(***************************************************************************)
C11_ServeTerminates == (serverPc = "parse") ~> (serverPc \in {"returned", "raised"})

C11_Witness ==
  /\ serverPc = "returned"
  /\ completions = 2
  /\ \E k \in 1..Len(returned) : returned[k].role = "code_result"
  /\ "toolCalls" \notin DOMAIN Last(returned)

(***************************************************************************)
(* Vocabulary of the properties of a client round                          *)
(***************************************************************************)
\* the output tool-state of the partial outcome the last server call surfaced
PreviousOutput == result.partialEvaluation.toolState

\* server is called again after a partial outcome was surfaced
CalledAfterPartial ==
  /\ serverPc = "parse" /\ outputMessages = <<>>
  /\ evalPc = "done" /\ IsPartial(result)

\* the history ends with one tool message of JSON content per pending call
AnsweredWithJSON ==
  LET P == PendingOf(PreviousOutput)
      n == Len(inputMessages)
  IN /\ n >= Len(P)
     /\ \A k \in 1..Len(P) :
          /\ inputMessages[n - Len(P) + k].role = "tool"
          /\ inputMessages[n - Len(P) + k].toolCallId = P[k].id
          /\ IsJSONText(inputMessages[n - Len(P) + k].content)

\* `next` is `prev` with every pending entry resolved in place
ResolvedInPlace(prev, next) ==
  /\ Len(next) = Len(prev)
  /\ \A k \in 1..Len(prev) :
       IF prev[k].type = "pendingTool"
         THEN next[k].type = "resolvedTool" /\ next[k].id = prev[k].id
         ELSE next[k] = prev[k]

(***************************************************************************)
(* C12. When server is called again after it surfaced the pending calls of *)
(* a partial outcome and the client answered each of them with one tool    *)
(* message of JSON content, the history parses to code mode and the        *)
(* tool-state rebuilt from it is the previous output tool-state with every *)
(* pending entry replaced in place by a resolved entry of the same id.     *)
(***************************************************************************)
C12_AnswersResolveInPlace ==
  (CalledAfterPartial /\ AnsweredWithJSON) =>
    LET p == parseClientMessages(inputMessages)
    IN /\ p.mode = "code"
       /\ ResolvedInPlace(PreviousOutput, p.partialEvaluation.toolState)

(***************************************************************************)
(* Vocabulary of the properties of the transcoder                          *)
(***************************************************************************)
Parsed == parseResult # Undefined

Projected == serverMessages # Undefined

\* position of the last code message of the history, 0 when there is none
LastCode == findLastIndex([i \in 1..Len(clientHistory) |-> clientHistory[i].role = "code"])

\* the messages strictly after the last code message
AfterLastCode == SubSeq(clientHistory, LastCode + 1, Len(clientHistory))

\* every tool message of the slice that answers a tool call surfaced after the
\* last assistant message without tool calls has JSON text for content
JSONAnswers(slice) ==
  LET quiet == {i \in 1..Len(slice) : slice[i].role = "assistant" /\ ~HasToolCalls(slice[i])}
      live == {i \in 1..Len(slice) : \A q \in quiet : q < i}
  IN \A i \in live :
       slice[i].role = "assistant" =>
         \A t \in 1..Len(ToolCallsOf(slice[i])) :
           LET answers == {j \in live : /\ slice[j].role = "tool"
                                        /\ slice[j].toolCallId = ToolCallsOf(slice[i])[t].id}
           IN \A j \in answers : (\A l \in answers : l <= j) => IsJSONText(slice[j].content)

OrphanCodeResult ==
  \E k \in 1..Len(clientHistory) :
    /\ clientHistory[k].role = "code_result"
    /\ \A j \in 1..(k - 1) : clientHistory[j].role # "code"

\* the last code message has no code_result after it, and a message after it
\* is neither an assistant nor a tool message
UnexpectedInOpenBlock ==
  /\ LastCode # 0
  /\ \A k \in 1..Len(AfterLastCode) : AfterLastCode[k].role # "code_result"
  /\ \E k \in 1..Len(AfterLastCode) : AfterLastCode[k].role \notin {"assistant", "tool"}

(***************************************************************************)
(* C14. parseClientMessages returns mode error whenever the history has a  *)
(* code_result message with no code message before it, and whenever a      *)
(* message after the open code message is neither assistant nor tool.      *)
(***************************************************************************)
C14_MalformedGivesError ==
  (Parsed /\ (OrphanCodeResult \/ UnexpectedInOpenBlock)) => parseResult.mode = "error"

\* position of the last code or code_result message before position k, 0 when
\* there is none
Opener(h, k) ==
  findLastIndex([i \in 1..(k - 1) |-> h[i].role \in {"code", "code_result"}])

\* message k lies after a code message that no code_result has closed yet
InBlock(h, k) == Opener(h, k) # 0 /\ h[Opener(h, k)].role = "code"

\* code and code_result messages pair up as brackets with equal ids (the last
\* block may be open); inside a block there are only assistant messages with
\* tool calls and tool messages of JSON content; no tool message is outside
BracketsAndDialogue(h) ==
  \A k \in 1..Len(h) :
    CASE h[k].role = "code" -> ~InBlock(h, k)
      [] h[k].role = "code_result" -> InBlock(h, k) /\ h[k].id = h[Opener(h, k)].id
      [] h[k].role = "tool" -> InBlock(h, k) /\ IsJSONText(h[k].content)
      [] h[k].role = "assistant" -> InBlock(h, k) => HasToolCalls(h[k])
      [] h[k].role \in {"system", "user"} -> ~InBlock(h, k)

\* outside a block an assistant message carries no tool call but run_typescript
OnlyRunTypeScriptOutside(h) ==
  \A k \in 1..Len(h) :
    (h[k].role = "assistant" /\ ~InBlock(h, k)) =>
      \A t \in 1..Len(ToolCallsOf(h[k])) : ToolCallsOf(h[k])[t].function.name = "run_typescript"

(***************************************************************************)
(* C15. For a client history in which code and code_result messages pair   *)
(* up with equal ids (the last block possibly open), a block holds only    *)
(* assistant messages with tool calls and tool messages of JSON content,   *)
(* and no tool message is outside a block, parseClientMessages returns     *)
(* mode llm or code: it neither returns an error nor raises.               *)
(***************************************************************************)
C15_WellFormedParses ==
  (Parsed /\ BracketsAndDialogue(clientHistory)) => parseResult.mode \in {"llm", "code"}

(***************************************************************************)
(* C15, as the code has it.  The same, for histories whose assistant       *)
(* messages outside a block carry no tool call other than run_typescript.  *)
(***************************************************************************)
C15_WellFormedWithoutForeignCallsParses ==
  (Parsed /\ BracketsAndDialogue(clientHistory) /\ OnlyRunTypeScriptOutside(clientHistory)) =>
    parseResult.mode \in {"llm", "code"}

C15_Witness ==
  /\ Parsed
  /\ BracketsAndDialogue(clientHistory) /\ OnlyRunTypeScriptOutside(clientHistory)
  /\ parseResult.mode = "llm"
  /\ \E k \in 1..Len(clientHistory) : clientHistory[k].role = "code_result"
  /\ \E k \in 1..Len(clientHistory) :
       clientHistory[k].role = "assistant" /\ ~InBlock(clientHistory, k) /\ HasToolCalls(clientHistory[k])

\* the projection succeeded and ended outside a block: every block is closed
ProjectedClosed == Projected /\ serverMessages.ok /\ serverMessages.ctx.type = "normal"

(***************************************************************************)
(* C16. For a client history whose code blocks are all closed, applying    *)
(* clientToServerMessages to its own output succeeds and returns that      *)
(* output unchanged.                                                       *)
(***************************************************************************)
C16_ProjectionIdempotent ==
  ProjectedClosed =>
    /\ clientToServerMessages(serverMessages.messages).ok
    /\ clientToServerMessages(serverMessages.messages).messages = serverMessages.messages

\* the model-visible message a code message is projected to
ForwardOf(codeMessage) ==
  clientToServerMessages(<<codeMessage>>).messages[1]

(***************************************************************************)
(* C17. Each code message of a history that projects is turned into an     *)
(* assistant message of the model view which, projected back with          *)
(* serverAssistantMessageToClientMessages, gives exactly one code message  *)
(* with the same id and the same code.                                     *)
(***************************************************************************)
C17_CodeRoundTrip ==
  (Projected /\ serverMessages.ok) =>
    \A k \in 1..Len(clientHistory) :
      clientHistory[k].role = "code" =>
        /\ \E j \in 1..Len(serverMessages.messages) :
             /\ serverMessages.messages[j].role = "assistant"
             /\ HasToolCalls(serverMessages.messages[j])
             /\ serverMessages.messages[j].toolCalls = ForwardOf(clientHistory[k]).toolCalls
        /\ serverAssistantMessageToClientMessages(ForwardOf(clientHistory[k]))
             = <<CodeMessage(clientHistory[k].id, clientHistory[k].code)>>

C17_Witness ==
  /\ Projected /\ serverMessages.ok
  /\ \E j, k \in 1..Len(clientHistory) :
       /\ clientHistory[j].role = "code" /\ clientHistory[k].role = "code"
       /\ clientHistory[j].id # clientHistory[k].id

\* the positions of the history whose message gives a model-visible message:
\* code and code_result messages, and what lies outside the blocks
Emitting ==
  {k \in 1..Len(clientHistory) :
     \/ clientHistory[k].role \in {"code", "code_result"}
     \/ ~InBlock(clientHistory, k)}

\* the n-th of these positions
EmittingAt(n) == CHOOSE k \in Emitting : Cardinality({j \in Emitting : j < k}) = n - 1

(***************************************************************************)
(* C18. The projection of a history has one message per message outside a  *)
(* block, per code and per code_result message, in the order of the        *)
(* history: a code message gives an assistant message with the single tool *)
(* call run_typescript of the same id whose arguments are the JSON text of *)
(* {code}; its code_result gives, next to it, a tool message with that id  *)
(* and for content the JSON text of the result; a system, user or          *)
(* assistant message outside a block is forwarded as it is.                *)
(***************************************************************************)
C18_ProjectionShape ==
  (Projected /\ serverMessages.ok) =>
    /\ Len(serverMessages.messages) = Cardinality(Emitting)
    /\ \A n \in 1..Cardinality(Emitting) :
         LET from == clientHistory[EmittingAt(n)]
             to == serverMessages.messages[n]
         IN CASE from.role = "code" ->
                   /\ to.role = "assistant"
                   /\ Len(ToolCallsOf(to)) = 1
                   /\ to.toolCalls[1].id = from.id
                   /\ to.toolCalls[1].function.name = "run_typescript"
                   /\ IsJSONText(to.toolCalls[1].function.arguments)
                   /\ JSONParse(to.toolCalls[1].function.arguments) = [code |-> from.code]
              [] from.role = "code_result" ->
                   /\ to.role = "tool"
                   /\ to.toolCallId = from.id
                   /\ IsJSONText(to.content)
                   /\ JSONParse(to.content) = from.result
                   /\ n > 1
                   /\ clientHistory[EmittingAt(n - 1)].role = "code"
                   /\ clientHistory[EmittingAt(n - 1)].id = from.id
              [] OTHER -> to.role = from.role /\ to = from

C18_Witness ==
  /\ Projected /\ serverMessages.ok
  /\ Len(clientHistory) = 4
  /\ clientHistory[1].role = "user"
  /\ clientHistory[2].role = "code"
  /\ clientHistory[3].role = "code_result"
  /\ clientHistory[4].role = "assistant"

\* the positions of the history that are not part of a tool dialogue: all but
\* the assistant and tool messages inside a block
OutsideDialogue ==
  {k \in 1..Len(clientHistory) :
     ~(InBlock(clientHistory, k) /\ clientHistory[k].role \in {"assistant", "tool"})}

\* the history without its tool dialogues
WithoutDialogue ==
  [n \in 1..Cardinality(OutsideDialogue) |->
     clientHistory[CHOOSE k \in OutsideDialogue :
                     Cardinality({j \in OutsideDialogue : j < k}) = n - 1]]

(***************************************************************************)
(* C19. The projection of a history is the projection of the same history  *)
(* without the assistant and tool messages that lie inside its blocks:     *)
(* histories that differ only in these messages have the same projection.  *)
(***************************************************************************)
C19_DialogueInvisible ==
  Projected => serverMessages = clientToServerMessages(WithoutDialogue)

C19_Witness ==
  /\ Projected /\ serverMessages.ok
  /\ Len(WithoutDialogue) + 2 = Len(clientHistory)
  /\ Last(clientHistory).role = "code_result"

(***************************************************************************)
(* C20. A history returned in mode llm holds only system, user, assistant  *)
(* and tool messages; each of its tool calls is a run_typescript call; and *)
(* each of its tool messages comes right after an assistant message whose  *)
(* only tool call is a run_typescript call of the same id.                 *)
(***************************************************************************)
C20_ModelSeesOnlyRunTypeScript ==
  (Parsed /\ parseResult.mode = "llm") =>
    \A j \in 1..Len(parseResult.messages) :
      LET m == parseResult.messages[j] IN
      /\ m.role \in {"system", "user", "assistant", "tool"}
      /\ m.role = "assistant" =>
           \A t \in 1..Len(ToolCallsOf(m)) : ToolCallsOf(m)[t].function.name = "run_typescript"
      /\ m.role = "tool" =>
           /\ j > 1
           /\ parseResult.messages[j - 1].role = "assistant"
           /\ Len(ToolCallsOf(parseResult.messages[j - 1])) = 1
           /\ parseResult.messages[j - 1].toolCalls[1].function.name = "run_typescript"
           /\ parseResult.messages[j - 1].toolCalls[1].id = m.toolCallId

C20_Witness ==
  /\ Parsed /\ parseResult.mode = "llm"
  /\ Len(parseResult.messages) = 3
  /\ parseResult.messages[1].role = "assistant" /\ HasToolCalls(parseResult.messages[1])
  /\ parseResult.messages[2].role = "assistant"
  /\ parseResult.messages[3].role = "tool"
  /\ Len(clientHistory) = 4

(***************************************************************************)
(* Properties of the projections towards the client                        *)
(***************************************************************************)
ReplyProjected == clientMessages # <<>>

HasRunTypeScriptCall(message) ==
  \E k \in 1..Len(ToolCallsOf(message)) : IsRunTypeScriptToolCall(ToolCallsOf(message)[k])

\* C21: a reply of the model that contains a run_typescript tool call is
\* projected to exactly one code message, which carries the id of that tool
\* call and the code decoded from its JSON argument; a reply without one is
\* projected to one plain assistant message with the reply's content and no
\* tool calls.
C21_ModelToClient ==
  ReplyProjected =>
    /\ Len(clientMessages) = 1
    /\ IF HasRunTypeScriptCall(assistantReply)
         THEN /\ clientMessages[1].role = "code"
              /\ DOMAIN clientMessages[1] = {"role", "id", "code"}
              /\ \E k \in 1..Len(assistantReply.toolCalls) :
                   /\ IsRunTypeScriptToolCall(assistantReply.toolCalls[k])
                   /\ clientMessages[1].id = assistantReply.toolCalls[k].id
                   /\ clientMessages[1].code = JSONParse(assistantReply.toolCalls[k].function.arguments).code
         ELSE /\ clientMessages[1].role = "assistant"
              /\ clientMessages[1].content = assistantReply.content
              /\ ToolCallsOf(clientMessages[1]) = <<>>

\* a reply with two run_typescript tool calls of different ids has been projected
C21_Witness ==
  /\ ReplyProjected
  /\ Len(ToolCallsOf(assistantReply)) = 2
  /\ assistantReply.toolCalls[1].id # assistantReply.toolCalls[2].id
  /\ clientMessages[1].role = "code"

Surfaced == pendingMessage # Undefined

\* the positions of the pending entries of a tool-state, in increasing order
PendingPositions(toolState) ==
  LET pendingAt == {k \in 1..Len(toolState) : toolState[k].type = "pendingTool"}
  IN [n \in 1..Cardinality(pendingAt) |->
        CHOOSE k \in pendingAt : Cardinality({j \in pendingAt : j < k}) = n - 1]

\* C22: the assistant message that surfaces a partial outcome has exactly
\* one tool call per pending entry of the tool-state, in the order of the
\* entries and with the entry's id, name and arguments, and no tool call for
\* a resolved or rejected entry.
C22_ToolCallsArePendingEntries ==
  Surfaced =>
    LET toolState == pendingEvaluation.toolState
        positions == PendingPositions(toolState)
    IN /\ pendingMessage.role = "assistant"
       /\ Len(pendingMessage.toolCalls) = Len(positions)
       /\ \A n \in 1..Len(positions) :
            /\ pendingMessage.toolCalls[n].id = toolState[positions[n]].id
            /\ pendingMessage.toolCalls[n].function.name = toolState[positions[n]].function.name
            /\ pendingMessage.toolCalls[n].function.arguments = toolState[positions[n]].function.arguments
       /\ \A k \in 1..Len(toolState) :
            toolState[k].type \in {"resolvedTool", "rejectedTool"} =>
              \A n \in 1..Len(pendingMessage.toolCalls) : pendingMessage.toolCalls[n].id # toolState[k].id

\* a tool-state with a settled entry before a pending one has been surfaced
C22_Witness ==
  /\ Surfaced
  /\ \E j, k \in 1..Len(pendingEvaluation.toolState) :
       /\ j < k
       /\ pendingEvaluation.toolState[j].type \in {"resolvedTool", "rejectedTool"}
       /\ pendingEvaluation.toolState[k].type = "pendingTool"
  /\ Len(pendingMessage.toolCalls) = 1

(***************************************************************************)
(* Rejected input entries                                                  *)
(***************************************************************************)
\* the rejected input entries the cursor has been at when a tool function was called
ConsumedRejected ==
  {k \in 1..Len(input) : input[k].type = "rejectedTool" /\ \E j \in 1..Len(entered) : entered[j].cursor = k - 1}

\* the calls of the fan-out main is in, as positions of `entered`
CallsOfStage == (Len(entered) - (callPos - 1) + 1)..Len(entered)

\* the first call of the fan-out whose promise rejected, 0 when there is none
FirstRejecting ==
  LET rejecting == {j \in CallsOfStage : At(input, entered[j].cursor).type # "resolvedTool"}
  IN IF rejecting = {} THEN 0 ELSE CHOOSE j \in rejecting : \A i \in rejecting : j <= i

\* the awaited fan-out rejects with the error of the rejected input entry k
RejectsWithEntry(k) ==
  /\ mainPc <= Len(code)
  /\ FirstRejecting # 0
  /\ entered[FirstRejecting].cursor = k - 1
  /\ input[k].type = "rejectedTool"

\* C23: a rejected input entry at the cursor makes the tool call reject with
\* the entry's error, is copied unchanged to the output and advances the
\* cursor; when main catches the rejection and resolves the outcome is
\* code_result success, when it does not the outcome is code_result error
\* with that error, not partial.
C23_RejectedEntryRejectsInSandbox ==
  /\ \A k \in ConsumedRejected :
       /\ index >= k
       /\ Len(toolStatesOutput) >= k
       /\ toolStatesOutput[k] = input[k]
  /\ \A k \in 1..Len(input) :
       RejectsWithEntry(k) => stageRejection = [type |-> "rejected", value |-> input[k].error]
  /\ Done =>
       /\ (ConsumedRejected # {} /\ mainPc > Len(code)) => IsSuccess(result)
       /\ \A k \in 1..Len(input) :
            (RejectsWithEntry(k) /\ ~Stage.caught) =>
              result = [type |-> "code_result",
                        result |-> [type |-> "error", error |-> input[k].error]]

\* the same, for rejected entries whose error has not the shape of the
\* engine's new-tool-call value
C23_OrdinaryErrors ==
  (\A k \in 1..Len(input) : input[k].type = "rejectedTool" => ~isNewToolCall(input[k].error))
    => C23_RejectedEntryRejectsInSandbox

(***************************************************************************)
(* Fatal errors of the orchestrator                                        *)
(***************************************************************************)
\* server is about to classify a history whose classification is Error, or
\* for which the projection or the tool-state building throws
FatalHistory ==
  /\ serverPc = "parse"
  /\ parseClientMessages(inputMessages \o outputMessages).mode \in {"error", "throw"}

\* the sandbox has returned an engine error to server
FatalEvaluation ==
  /\ serverPc = "evaluating"
  /\ evalPc = "done"
  /\ result.type = "error"

\* nothing is evaluated, completed or returned in the step
NothingFurther ==
  /\ completions' = completions
  /\ returned' = returned
  /\ outputMessages' = outputMessages
  /\ UNCHANGED evalVars

\* C24: when the classification is Error, the projection finds a protocol
\* violation, the content of a tool message to parse is no JSON text, or the
\* sandbox returns an engine error, server raises in its next step; the
\* client receives no message, and no completion and no evaluation follows.
C24_FatalErrorsStopServe ==
  [][ /\ (FatalHistory \/ FatalEvaluation) => (serverPc' = "raised" /\ NothingFurther)
      /\ serverPc = "raised" =>
           (serverPc' = "idle" /\ clientPc' = "failed" /\ messages' = messages /\ NothingFurther)
      /\ clientPc = "failed" => UNCHANGED vars ]_vars

\* server has raised in a recursive call, after a completion
C24_Witness ==
  /\ serverPc = "raised"
  /\ completions >= 1
  /\ outputMessages # <<>>

(***************************************************************************)
(* The isolate of an evaluation                                            *)
(***************************************************************************)
Evaluating == evalPc \in {"running", "settled"}

\* C25: the isolate created by a runToolCode call is disposed exactly once
\* before the call returns, whatever it returns: code_result, partial or an
\* engine error (a program that does not compile included); while a call is
\* under way its isolate is the only one held, and no isolate of an earlier
\* call is held any more.
C25_IsolateDisposedOnce ==
  /\ Evaluating =>
       /\ Len(isolates) >= 1
       /\ Last(isolates) = 0
       /\ \A k \in 1..(Len(isolates) - 1) : isolates[k] = 1
  /\ ~Evaluating => \A k \in 1..Len(isolates) : isolates[k] = 1
  /\ Done => Len(isolates) >= 1

\* a second evaluation has returned an engine error for a program that does not compile
C25_Witness ==
  /\ Done
  /\ code = Malformed
  /\ result.type = "error"
  /\ runNo = 2
  /\ isolates = <<1>>

(***************************************************************************)
(* What a call of server leaves alone                                      *)
(***************************************************************************)
InCall == serverPc \in {"parse", "evaluating", "llm"}

\* the messages of `after` that follow its prefix `before`
Created(before, after) == SubSeq(after, Len(before) + 1, Len(after))

\* C26: a call of server leaves its input unchanged: from the call to its
\* end the input history is the caller's history behind the system prompt
\* and the tool definitions are the ones passed; the list it returns is made
\* of messages created during the call (the code, code_result and assistant
\* messages added to the initially empty output), none taken from the input;
\* and the tool-state handed to the sandbox is not modified by the pass.
C26_ServeLeavesInputUnchanged ==
  [][ /\ (serverPc = "idle" /\ serverPc' # "idle") =>
           /\ inputMessages' = <<SystemMessage("You are a helpful assistant")>> \o messages
           /\ tools' = getToolDefinitions
           /\ outputMessages' = <<>>
      /\ serverPc # "idle" =>
           /\ inputMessages' = inputMessages
           /\ tools' = tools
      /\ InCall =>
           /\ messages' = messages
           /\ Len(outputMessages') >= Len(outputMessages)
           /\ SubSeq(outputMessages', 1, Len(outputMessages)) = outputMessages
           /\ \A k \in 1..Len(Created(outputMessages, outputMessages')) :
                Created(outputMessages, outputMessages')[k].role \in {"code", "code_result"}
      /\ (InCall /\ serverPc' = "returned") =>
           /\ Len(returned') = Len(outputMessages) + 1
           /\ SubSeq(returned', 1, Len(outputMessages)) = outputMessages
           /\ Last(returned').role = "assistant"
      /\ (serverPc = "returned" /\ serverPc' = "idle") =>
           /\ Len(messages') >= Len(messages) + Len(returned)
           /\ SubSeq(messages', 1, Len(messages) + Len(returned)) = messages \o returned
      /\ (Evaluating /\ serverPc = "evaluating") => partialEvaluation' = partialEvaluation ]_vars

\* server has returned, after an evaluation against a tool-state with an entry,
\* a list with more than one message
C26_Witness ==
  /\ serverPc = "returned"
  /\ Len(returned) >= 2
  /\ evalPc = "done"
  /\ Len(partialEvaluation.toolState) >= 1

(***************************************************************************)
(* Open code blocks and the model                                          *)
(***************************************************************************)
\* the history server works on: its input followed by the messages it created
ServerHistory == inputMessages \o outputMessages

\* a code message of the history has no code_result of its id behind it
OpenBlock(h) ==
  \E k \in 1..Len(h) :
    /\ h[k].role = "code"
    /\ ~\E j \in (k + 1)..Len(h) : h[j].role = "code_result" /\ h[j].id = h[k].id

\* C27: between a code message and the code_result that closes it the model
\* is never invoked: while the block is open a call of server evaluates in
\* the sandbox only, and the next completion happens after the code_result
\* has been appended.
C27_NoCompletionInOpenBlock ==
  [][ (InCall /\ OpenBlock(ServerHistory)) =>
        /\ serverPc # "llm"
        /\ serverPc' # "llm"
        /\ completions' = completions ]_vars

\* a completion is under way after a block that held a tool dialogue was closed
C27_Witness ==
  /\ serverPc = "llm"
  /\ \E k \in 1..Len(ServerHistory) : ServerHistory[k].role = "tool"
  /\ Last(ServerHistory).role = "code_result"

(***************************************************************************)
(* Tool failures reported by the client                                    *)
(***************************************************************************)
\* the tool message of the open block answers the call `id` with a failure
FailureReported(id) ==
  \E k \in 1..Len(ServerHistory) :
    /\ ServerHistory[k].role = "tool"
    /\ \A j \in k..Len(ServerHistory) : ServerHistory[j].role \in {"assistant", "tool"}
    /\ ServerHistory[k].toolCallId = id
    /\ ServerHistory[k].content = ToolResultContent(ToolFailure)

\* C28: a tool failure the client reports for a pending call becomes a
\* rejected entry of the tool-state handed to the next evaluation, so that
\* the tool call rejects inside the sandbox.
C28_ToolFailureBecomesRejected ==
  (serverPc = "evaluating") =>
    \A k \in 1..Len(input) :
      FailureReported(input[k].id) =>
        /\ input[k].type = "rejectedTool"
        /\ input[k].error = ToolFailure

(***************************************************************************)
(* Protocol violations of the projection                                   *)
(***************************************************************************)
\* a tool call of the message is no run_typescript call
HasForeignToolCall(message) ==
  \E n \in 1..Len(ToolCallsOf(message)) : ToolCallsOf(message)[n].function.name # "run_typescript"

ToolInNormal(h, k) == ~InBlock(h, k) /\ h[k].role = "tool"

ForeignCallInNormal(h, k) == ~InBlock(h, k) /\ h[k].role = "assistant" /\ HasForeignToolCall(h[k])

WrongIdInBlock(h, k) == InBlock(h, k) /\ h[k].role = "code_result" /\ h[k].id # h[Opener(h, k)].id

CodeInBlock(h, k) == InBlock(h, k) /\ h[k].role = "code"

SystemOrUserInBlock(h, k) == InBlock(h, k) /\ h[k].role \in {"system", "user"}

\* C29: clientToServerMessages fails, and yields no model view, on a tool
\* message in normal state, on an assistant message in normal state that
\* carries a tool call other than run_typescript and, inside an open block,
\* on a code_result of another id, on a second code message and on a system
\* or user message.
C29_ProtocolViolationsThrow ==
  Projected =>
    \A k \in 1..Len(clientHistory) :
      ( \/ ToolInNormal(clientHistory, k)
        \/ ForeignCallInNormal(clientHistory, k)
        \/ WrongIdInBlock(clientHistory, k)
        \/ CodeInBlock(clientHistory, k)
        \/ SystemOrUserInBlock(clientHistory, k) ) => ~serverMessages.ok

\* the projection has failed on a history whose only violation is a
\* code_result of another id inside an open block
C29_Witness ==
  /\ Projected
  /\ ~serverMessages.ok
  /\ \E k \in 1..Len(clientHistory) : WrongIdInBlock(clientHistory, k)
  /\ \A k \in 1..Len(clientHistory) :
       /\ ~ToolInNormal(clientHistory, k)
       /\ ~ForeignCallInNormal(clientHistory, k)
       /\ ~CodeInBlock(clientHistory, k)
       /\ ~SystemOrUserInBlock(clientHistory, k)
       /\ ~(clientHistory[k].role = "code_result" /\ ~InBlock(clientHistory, k))

(***************************************************************************)
(* The tool-state built from the slice of an open block                    *)
(***************************************************************************)
\* parseClientMessages has classified the history as an open block, so that
\* messagesToToolState has returned the tool-state of its slice
ToolStateBuilt == Parsed /\ parseResult.mode = "code"

BuiltToolState == parseResult.partialEvaluation.toolState

\* position in the slice of its last assistant message without tool calls, 0
\* when there is none
LastPlainAssistant(slice) ==
  findLastIndex([i \in 1..Len(slice) |-> slice[i].role = "assistant" /\ ToolCallsOf(slice[i]) = <<>>])

\* the tool calls of the assistant messages after that message, in order
CallsToAnswer(slice) ==
  FlatToolCalls(SubSeq(slice, LastPlainAssistant(slice) + 1, Len(slice)))

\* the positions from `from` on of the tool messages of the slice that answer the call
AnswersFrom(slice, from, toolCall) ==
  {k \in from..Len(slice) : slice[k].role = "tool" /\ slice[k].toolCallId = toolCall.id}

\* the tool-state has one entry per tool call to answer, in order: resolved
\* with the value the content of an answer encodes when the slice has an
\* answer from position `from` on, pending with the call's id, name and
\* arguments otherwise
EntriesFollowAnswers(slice, from) ==
  /\ Len(BuiltToolState) = Len(CallsToAnswer(slice))
  /\ \A n \in 1..Len(BuiltToolState) :
       LET toolCall == CallsToAnswer(slice)[n]
           entry == BuiltToolState[n]
       IN /\ entry.type # "rejectedTool"
          /\ entry.id = toolCall.id
          /\ IF AnswersFrom(slice, from, toolCall) # {}
               THEN /\ entry.type = "resolvedTool"
                    /\ \E k \in AnswersFrom(slice, from, toolCall) :
                         /\ IsJSONText(slice[k].content)
                         /\ entry.result = slice[k].content.json
               ELSE /\ entry.type = "pendingTool"
                    /\ entry.function.name = toolCall.function.name
                    /\ entry.function.arguments = toolCall.function.arguments

CallsAtPending ==
  {j \in 1..Len(entered) : At(input, entered[j].cursor).type = "pendingTool"}

\* the value the interceptor rejects call j with when the cursor is at a pending entry
UnexpectedPendingTool(j) ==
  [type |-> "unexpectedPendingTool", name |-> entered[j].name, args |-> entered[j].args]

\* the awaited fan-out rejects with the rejection of a call made at a pending entry
RejectsAtPending ==
  /\ mainPc <= Len(code)
  /\ FirstRejecting # 0
  /\ FirstRejecting \in CallsAtPending

\* C31: a tool call made while the cursor is at a pending input entry is
\* rejected with the unexpectedPendingTool value, appends nothing to the
\* output and leaves the cursor where it is; when that rejection settles
\* main, runToolCode returns code_result error, not partial.
C31_PendingEntryRejectsCall ==
  /\ \A j \in CallsAtPending :
       /\ index = entered[j].cursor
       /\ Len(toolStatesOutput) = entered[j].cursor
  /\ RejectsAtPending =>
       stageRejection = [type |-> "rejected", value |-> UnexpectedPendingTool(FirstRejecting)]
  /\ (Done /\ RejectsAtPending /\ ~Stage.caught) =>
       result = [type |-> "code_result",
                 result |-> [type |-> "error", error |-> UnexpectedPendingTool(FirstRejecting)]]

\* a call made at a pending entry that follows a resolved one has settled main
C31_Witness ==
  /\ Done
  /\ RejectsAtPending
  /\ ~Stage.caught
  /\ entered[FirstRejecting].cursor = 1
  /\ IsRuntimeError(result)

(***************************************************************************)
(* The empty collector                                                     *)
(***************************************************************************)
\* the script has run and the settlement handlers of main delivered nothing
\* to $collectOutput: main never settled, or the script threw before
NothingDelivered ==
  /\ evalPc \in {"settled", "done"}
  /\ code # Malformed
  /\ (collectedOutput = Undefined \/ code = ThrowsAtTopLevel)

\* C32: whenever the collector has received nothing after the script has
\* run, runToolCode returns code_result error, which carries the captured
\* throw when the script threw; never an engine error, never partial.
C32_EmptyCollectorIsRuntimeError ==
  (Done /\ NothingDelivered) =>
    /\ IsRuntimeError(result)
    /\ code = ThrowsAtTopLevel => result.result.error = tryJSONStringify(ThrowsAtTopLevel[1].value)

\* the same, for a script that threw
C32_ScriptThrowIsRuntimeError ==
  (Done /\ NothingDelivered /\ code = ThrowsAtTopLevel) =>
    /\ IsRuntimeError(result)
    /\ result.result.error = tryJSONStringify(ThrowsAtTopLevel[1].value)

(***************************************************************************)
(* Recorded results and the calls they were recorded for                   *)
(***************************************************************************)
\* the evaluation under way is the one against the answered tool-state
Resumed == runNo = 3

\* the call the entry at position k was recorded for, in the partial result
\* of the first evaluation
RecordedFor(k) == firstResult.partialEvaluation.toolState[k].function

\* call j of this pass has been delivered the recorded result of the entry
\* the cursor was at
DeliveredRecorded(j) ==
  /\ entered[j].cursor < Len(input)
  /\ input[entered[j].cursor + 1].type = "resolvedTool"

\* C33: a recorded result is delivered only to the call it was recorded
\* for: a call that is not the one recorded at the cursor (another tool, or
\* other arguments) is rejected with the mismatchedToolCall value instead.
C33_ResultOnlyForItsCall ==
  Resumed =>
    \A j \in 1..Len(entered) :
      DeliveredRecorded(j) =>
        /\ entered[j].name = RecordedFor(entered[j].cursor + 1).name
        /\ entered[j].args = RecordedFor(entered[j].cursor + 1).arguments

(***************************************************************************)
(* Completions and evaluations of one call of server                       *)
(***************************************************************************)
\* server hands the open block to the sandbox
EvaluationStarts == serverPc = "parse" /\ serverPc' = "evaluating"

\* server sends the projected history to the model
CompletionStarts == serverPc = "parse" /\ serverPc' = "llm"

\* what the call has done last is told by the last message it created: a
\* code message after a completion, a code_result message after an evaluation
NothingYet == outputMessages = <<>>

AfterCompletion == outputMessages # <<>> /\ Last(outputMessages).role = "code"

AfterEvaluation == outputMessages # <<>> /\ Last(outputMessages).role = "code_result"

\* C34: within one call of server, completions and evaluations alternate:
\* an evaluation ends the call (partial, or an engine error) or appends the
\* code_result and is followed by a completion; a completion ends the call
\* (reply without tool call) or appends a code message and is followed by
\* the evaluation of that code; so no block is evaluated twice in a call.
C34_CompletionsAndEvaluationsAlternate ==
  [][ /\ EvaluationStarts =>
           /\ NothingYet \/ AfterCompletion
           /\ AfterCompletion =>
                /\ partialEvaluation'.code = Last(outputMessages).code
                /\ partialEvaluation'.toolState = <<>>
      /\ CompletionStarts => (NothingYet \/ AfterEvaluation)
      /\ (serverPc = "evaluating" /\ serverPc' # "evaluating") =>
           \/ serverPc' \in {"returned", "raised"} /\ outputMessages' = outputMessages
           \/ /\ serverPc' = "parse"
              /\ Len(outputMessages') = Len(outputMessages) + 1
              /\ Last(outputMessages').role = "code_result"
              /\ Last(outputMessages').id = parsed.id
      /\ (serverPc = "llm" /\ serverPc' # "llm") =>
           \/ serverPc' = "returned" /\ outputMessages' = outputMessages
           \/ /\ serverPc' = "parse"
              /\ Len(outputMessages') = Len(outputMessages) + 1
              /\ Last(outputMessages').role = "code"
      /\ (serverPc = "parse" /\ AfterEvaluation) => serverPc' \in {"parse", "llm", "raised"}
      /\ (serverPc = "parse" /\ AfterCompletion) => serverPc' \in {"parse", "evaluating"} ]_vars

\* in one call an evaluation, then a completion, and the evaluation of the
\* code the completion emitted is under way
C34_Witness ==
  /\ serverPc = "evaluating"
  /\ Len(outputMessages) = 2
  /\ outputMessages[1].role = "code_result"
  /\ outputMessages[2].role = "code"

(***************************************************************************)
(* Pending entries computed from delivered results                         *)
(***************************************************************************)
\* the results of the two searches of PostProcessing that its filter retains
RetainedResults ==
  LET Retained(r) == r # PostProcessing[2].value.drop
  IN SelectSeq(<<input[1].result, input[2].result>>, Retained)

\* the pass ran PostProcessing with both searches answered
FilteredFanOut == Done /\ code = PostProcessing /\ AllResolved(input) /\ Len(input) >= 2

\* the pass ran a chain whose next call takes the previous result
ChainedCall ==
  /\ Done /\ Sequential(code) /\ AllResolved(input)
  /\ Len(input) >= 1 /\ Len(input) < Len(code)
  /\ code[Len(input) + 1].calls[1].arg = "$prev"

\* C35: in a pass whose earlier entries are resolved, a chained call is
\* recorded pending with the previous call's result as its argument, and a
\* fan-out over the filtered results records one pending entry per retained
\* result that has no answer yet, in order, and none for a dropped result
C35_PendingEntriesFollowResults ==
  /\ ChainedCall =>
       /\ IsPartial(result)
       /\ LET new == PendingOf(result.partialEvaluation.toolState)
          IN /\ Len(new) = 1
             /\ new[1].function.name = code[Len(input) + 1].calls[1].name
             /\ new[1].function.arguments = [query |-> input[Len(input)].result]
  /\ FilteredFanOut =>
       LET answered == Len(input) - 2
           open == Len(RetainedResults) - answered
       IN IF open <= 0
            THEN IsSuccess(result)
            ELSE /\ IsPartial(result)
                 /\ StripPendingIds(result.partialEvaluation.toolState)
                      = input \o [n \in 1..open |->
                                    PendingTool(0, "summarize",
                                                [query |-> RetainedResults[answered + n]])]

C35_Witness ==
  /\ FilteredFanOut
  /\ IsPartial(result)
  /\ input[1].result = "r1" /\ input[2].result = "r2"
  /\ Len(PendingOf(result.partialEvaluation.toolState)) = 1
  /\ PendingOf(result.partialEvaluation.toolState)[1].function.arguments = [query |-> "r1"]

(***************************************************************************)
(* The cursor and a pending input entry                                    *)
(***************************************************************************)
\* the positions of the input's pending entries
PendingInputPositions == {k \in 1..Len(input) : input[k].type = "pendingTool"}

\* the position of the first pending entry of the input
FirstPendingInput == CHOOSE p \in PendingInputPositions : \A q \in PendingInputPositions : p <= q

\* C36: when the input has a pending entry at position p, the cursor never
\* leaves p in the pass: no tool call is made with the cursor past p, the
\* output holds at most the entries before p, so no pending entry is recorded,
\* whether or not the program catches the rejection and calls further tools
C36_CursorStopsAtPendingEntry ==
  (evalPc # "idle" /\ PendingInputPositions # {}) =>
    /\ index <= FirstPendingInput - 1
    /\ \A j \in 1..Len(entered) : entered[j].cursor <= FirstPendingInput - 1
    /\ Len(toolStatesOutput) <= FirstPendingInput - 1
    /\ PendingOf(toolStatesOutput) = <<>>

\* the rejection was caught and a further tool call met the same pending entry
C36_Witness ==
  /\ Done
  /\ PendingInputPositions # {}
  /\ FirstPendingInput < Len(input)
  /\ Len(code) = 2 /\ code[1].caught
  /\ Cardinality(CallsAtPending) >= 2

(***************************************************************************)
(* Well-formedness of the history server returns                           *)
(***************************************************************************)
\* the positions of the code messages of a history
CodesOf(h) == {k \in 1..Len(h) : h[k].role = "code"}

\* the code_result messages behind position k that carry the id of message k
ResultsFor(h, k) == {j \in (k + 1)..Len(h) : h[j].role = "code_result" /\ h[j].id = h[k].id}

\* every code message of the history carries an id of its own
FreshIds(h) == \A k \in CodesOf(h), j \in CodesOf(h) : h[k].id = h[j].id => k = j

\* no two code_result messages of the history carry the same id
NoResultTwice(h) ==
  \A k \in 1..Len(h), j \in 1..Len(h) :
    (h[k].role = "code_result" /\ h[j].role = "code_result" /\ h[k].id = h[j].id) => k = j

\* the code message at position k is left open: nothing follows it but the
\* assistant message that carries the pending tool calls
LeftOpen(h, k) ==
  /\ ResultsFor(h, k) = {}
  /\ Len(h) = k + 1
  /\ h[k + 1].role = "assistant"
  /\ "toolCalls" \in DOMAIN h[k + 1]

\* code and code_result messages pair up as brackets with equal ids, the
\* last block possibly open, and no system, user or tool message is misplaced
Brackets(h) ==
  \A k \in 1..Len(h) :
    CASE h[k].role = "code" -> ~InBlock(h, k)
      [] h[k].role = "code_result" -> InBlock(h, k) /\ h[k].id = h[Opener(h, k)].id
      [] h[k].role = "tool" -> InBlock(h, k)
      [] h[k].role = "assistant" -> InBlock(h, k) => "toolCalls" \in DOMAIN h[k]
      [] h[k].role \in {"system", "user"} -> ~InBlock(h, k)

\* server returned, on a well-formed history, the model's code ids being fresh
ReturnedOnWellFormed ==
  /\ serverPc = "returned"
  /\ BracketsAndDialogue(messages)
  /\ FreshIds(messages \o returned)

ReturnedOpenBlock ==
  /\ ReturnedOnWellFormed
  /\ \E k \in CodesOf(returned) : LeftOpen(returned, k) /\ HasToolCalls(returned[k + 1])

(***************************************************************************)
(* A swallowed new-tool-call rejection                                     *)
(***************************************************************************)
\* main resolved in a pass that recorded a pending entry: the program caught
\* the rejection of a call that had no result yet
SwallowedSentinel ==
  /\ evalPc = "done"
  /\ collectedOutput.type = "success"
  /\ PendingOf(toolStatesOutput) # <<>>

\* C38: the outcome depends only on how main settled: when the program
\* catches the rejection of a call that has no result yet and main resolves,
\* runToolCode returns code_result success without any tool-state although
\* the pass recorded pending entries, and server appends the code_result
\* message and goes on: the pending calls are not returned to the client
C38_SwallowedSentinelIsSuccess ==
  [][ (serverPc = "evaluating" /\ SwallowedSentinel) =>
        /\ result = [type |-> "code_result", result |-> collectedOutput]
        /\ outputMessages' = Append(outputMessages,
                                    CodeResultMessage(parsed.id,
                                                      [status |-> "success",
                                                       data |-> collectedOutput.value]))
        /\ serverPc' = "parse"
        /\ returned' = returned ]_vars

\* the code_result message of such a pass has been appended
C38_Witness ==
  /\ serverPc = "parse"
  /\ SwallowedSentinel
  /\ outputMessages # <<>>
  /\ Last(outputMessages).role = "code_result"
  /\ Last(outputMessages).result.status = "success"

(***************************************************************************)
(* The client loop                                                         *)
(***************************************************************************)
\* the client takes the messages server returned
ClientTakesReturn == serverPc = "returned" /\ serverPc' = "idle"

\* the tool messages the client appended in this step
AppendedToolMessages ==
  SubSeq(messages', Len(messages) + Len(returned) + 1, Len(messages'))

\* the client answers every tool call of the last returned message with one
\* tool message of its id and JSON content
C39_OneAnswerPerCall ==
  [][ (ClientTakesReturn /\ HasToolCalls(Last(returned))) =>
        /\ SubSeq(messages', 1, Len(messages) + Len(returned)) = messages \o returned
        /\ Len(AppendedToolMessages) = Len(Last(returned).toolCalls)
        /\ \A k \in 1..Len(AppendedToolMessages) :
             /\ AppendedToolMessages[k].role = "tool"
             /\ AppendedToolMessages[k].toolCallId = Last(returned).toolCalls[k].id
             /\ IsJSONText(AppendedToolMessages[k].content) ]_vars

\* the client stops when the last returned message has no tool call
C39_StopsWithoutToolCalls ==
  [][ (ClientTakesReturn /\ ~HasToolCalls(Last(returned))) =>
        /\ clientPc' = "finished"
        /\ messages' = messages \o returned ]_vars

\* every history the loop passes to server parses as code or llm
C39_HistoriesParse ==
  (serverPc \in {"evaluating", "llm", "raised"} /\ parsed # Undefined) =>
    parsed.mode \in {"code", "llm"}

\* no sandbox pass of the loop is given a pending entry
C39_NoPendingInput ==
  (serverPc = "evaluating") => PendingInputPositions = {}

\* C39: in the client loop every tool call server returns is answered by
\* one tool message of its id and JSON content before server is called
\* again, the loop stops when the last returned message has no tool call,
\* every history the loop passes to server parses as code or llm, and no
\* sandbox pass is given a pending entry
C39_ClientLoop ==
  /\ C39_OneAnswerPerCall
  /\ C39_StopsWithoutToolCalls
  /\ []C39_HistoriesParse
  /\ []C39_NoPendingInput

====
